---------------------------- MODULE Spec2Model ----------------------------
(***************************************************************************)
(* Model of the log aggregation service of davidlandreman/map_logs.        *)
(*                                                                         *)
(* Part 1: LogStore (src/src/console_ui.cpp, lines 594-1240): the SQLite   *)
(* table `logs`, its FTS5 mirror `logs_fts`, the AUTOINCREMENT counter,    *)
(* the store mutex, the subscriber list, and the operations insert, query, *)
(* search, clear, count, subscribe, get_sessions and get_latest_session.   *)
(*                                                                         *)
(* Optional values (std::optional<T>) are modelled as sets with at most    *)
(* one element: {} is std::nullopt and {x} is the engaged value x.         *)
(* A message is modelled as the sequence of its words; the FTS5 tokenizer  *)
(* maps it to the set of those words.                                      *)
(***************************************************************************)
EXTENDS Integers, Sequences, FiniteSets, TLC

(***************************************************************************)
(* Bounds of the model.                                                    *)
(***************************************************************************)
\* largest number of rows ever inserted in one behaviour
MaxRecords == 2
\* largest number of registered subscriber callbacks
MaxSubscribers == 2
\* largest number of datagrams the receiver handles in one behaviour
MaxDatagrams == 2
\* largest number of lines the writer of the tailed file begins
MaxLines == 2
\* largest number of truncations and deletions of the tailed file
MaxRotations == 1
\* largest number of failed starts of the file tailer
MaxFailedStarts == 1
\* largest number of add_file_tailer calls of one source manager
MaxAdds == 3
\* largest number of GET / connections of one HttpServer
MaxStreams == 2
\* largest number of POST /messages requests in one behaviour
MaxPosts == 1
\* largest number of broadcast_sse calls in one behaviour
MaxBroadcasts == 1
\* largest number of keep-alive frames on one stream
MaxPings == 1

\* POST /messages requests handled by the pool's workers, step by step
MaxHandled == 2

(***************************************************************************)
(* Program constants.                                                      *)
(***************************************************************************)
\* enum class Verbosity
NoLogging == 0
Fatal == 1
Error == 2
Warning == 3
Display == 4
Log == 5
Verbose == 6
VeryVerbose == 7
\* LogFilter::limit and LogFilter::offset defaults
DefaultLimit == 100
DefaultOffset == 0

Workers == {"w1", "w2"}

\* workers of the HTTP server's pool that handle POST /messages
PostWorkers == {"p1", "p2"}
NoOwner == "none"
\* values system_clock::now() returns
Clock == {1, 2}

VARIABLES
    logs,             \* rows of table `logs`
    logs_fts,         \* rows of the FTS5 table: [rowid, tokens]
    sqlite_sequence,  \* AUTOINCREMENT high-water mark of table `logs`
    latest_row,       \* id of the row the engine yields first for
                      \* "ORDER BY received_at DESC LIMIT 1" (0: no row)
    mutex_,           \* owner of LogStore::mutex_
    subscribers_,     \* LogStore::subscribers_, a sequence of callback names
    pc,               \* per worker: position inside LogStore::insert
    entry,            \* per worker: the argument of the running insert
    inserted_entry,   \* per worker: local copy handed to the callbacks
    next_cb,          \* per worker: index of the next callback to invoke
    outcome,          \* per worker: how its last insert ended
    notified,         \* per callback name: the entries it was invoked with
    began,            \* per worker: callbacks registered when insert was called
    completed,        \* history: the inserts that returned, in return order
    live_returned,    \* history: rows whose insert returned, no clear since
    reused_after_empty, \* history: an insert ran on a store emptied by clear
    lastOp,           \* the last read or clear and its result, kept until
                      \* an insert is called or changes the table
    codec,            \* a LogEntry on its way through to_json and from_json
    sink,             \* ServerLog: the reports handed to the sink, in order
    udp_running_,     \* UdpReceiver::running_
    receive_pending,  \* UdpReceiver: an async_receive_from is outstanding
    handled,          \* history: the datagram handle_receive handled last
    file,             \* the tailed file: does it exist, and its bytes
    lines_written,    \* the writer of the file: lines begun so far
    rotations,        \* the writer of the file: truncations and deletions
    tail_running_,    \* FileTailer::running_
    last_pos_,        \* FileTailer::last_pos_
    current_size,     \* FileTailer::monitor_loop: local current_size
    tail_pc,          \* FileTailer::monitor_loop: position of the thread
    pending,          \* FileTailer::monitor_loop: lines getline still yields
    rotated,          \* history: the file shrank or vanished after start()
    tailers_,         \* SourceManager::tailers_: id -> the tailer's fields
    next_id_,         \* SourceManager::next_id_
    source_op,        \* the last SourceManager call, its result and the
                      \* list_sources() result before and after it
    issued,           \* history: what add_file_tailer returned, call by call
    live,             \* history: ids returned and not removed or stopped
    rpc,              \* McpServer::handle_request: the last request and
                      \* how the call ended
    http_running_,    \* HttpServer::running_
    session_counter_, \* HttpServer::session_counter_
    sse_clients_,     \* HttpServer::sse_clients_: [session_id, sink]
    streams,          \* per GET / connection: the position of its worker,
                      \* its session id, whether the client is still
                      \* connected, and the frames written to it
    post,             \* the last POST /messages and its HTTP response
    broadcasts,       \* history: number of broadcast_sse calls
    handlers,         \* per pool worker: the POST /messages it handles
    sse_mutex_,       \* HttpServer::sse_mutex_: its owner
    writing,          \* per stream: the workers inside sink.write on it
    produced          \* history: the responses the dispatcher returned to
                      \* POST handlers, in the order it returned them

codecVars == <<codec>>
udpVars == <<udp_running_, receive_pending, handled>>
fileVars == <<file, lines_written, rotations>>
tailVars == <<tail_running_, last_pos_, current_size, tail_pc, pending,
              rotated>>
ingestVars == <<codecVars, sink, udpVars, fileVars, tailVars>>
srcVars == <<tailers_, next_id_, source_op, issued, live>>
sseVars == <<handlers, sse_mutex_, writing, produced>>
httpVars == <<http_running_, session_counter_, sse_clients_, streams, post,
              broadcasts, sseVars>>
rpcVars == <<srcVars, rpc, httpVars>>

vars == <<logs, logs_fts, sqlite_sequence, latest_row, mutex_, subscribers_,
          pc, entry, inserted_entry, next_cb, outcome, notified, began,
          completed, live_returned, reused_after_empty, lastOp, ingestVars,
          rpcVars>>

storeVars == <<logs, logs_fts, sqlite_sequence, latest_row>>
insertVars == <<pc, entry, inserted_entry, next_cb, outcome, began>>
histVars == <<completed, live_returned, reused_after_empty>>

(***************************************************************************)
(* LogEntry and LogFilter values.                                          *)
(***************************************************************************)
LogEntry(src, cat, verb, msg, ts, recv, sid, iid) ==
    [id |-> 0, source |-> src, category |-> cat, verbosity |-> verb,
     message |-> msg, timestamp |-> ts, frame |-> {}, file |-> {},
     line |-> {}, received_at |-> recv,
     session_id |-> sid, instance_id |-> iid]

NoEntry == LogEntry("", "", Log, <<>>, 0, 0, "", "")

LogFilter(src, verb, cat, since, until, sid, iid, all, lim, off) ==
    [source |-> src, min_verbosity |-> verb, category |-> cat,
     since |-> since, until |-> until, session_id |-> sid,
     instance_id |-> iid, all_sessions |-> all, limit |-> lim, offset |-> off]

DefaultFilter ==
    LogFilter({}, {}, {}, {}, {}, {}, {}, FALSE, DefaultLimit, DefaultOffset)

(***************************************************************************)
(* Helpers.                                                                *)
(***************************************************************************)
Min(a, b) == IF a <= b THEN a ELSE b

MaxOf(S) == CHOOSE x \in S : \A y \in S : y <= x

Range(s) == {s[i] : i \in DOMAIN s}

\* every arrangement of the finite set S as a sequence without repetition
Perms(S) ==
    {s \in [1..Cardinality(S) -> S] :
        \A i, j \in 1..Cardinality(S) : i # j => s[i] # s[j]}

\* FTS5 tokenizer: the set of words of a message
Tokens(msg) == Range(msg)


(***************************************************************************)
(* SQL building blocks.                                                    *)
(***************************************************************************)
Ids(rows) == {r.id : r \in rows}

\* (variant: INTEGER PRIMARY KEY without AUTOINCREMENT reuses freed rowids)
RowidWithoutAutoincrement(rows, seq) == MaxOf({0} \cup Ids(rows)) + 1

\* logs.id INTEGER PRIMARY KEY AUTOINCREMENT: the new rowid is one more than
\* the largest rowid the table has ever held (kept in sqlite_sequence)
AutoincrementRowid(rows, seq) == MaxOf({seq} \cup Ids(rows)) + 1

\* insert: "if (received_at == 0.0) received_at = now"
ReceivedAt(e, now) == IF e.received_at = 0 THEN now ELSE e.received_at

\* the row bound to the INSERT statement
InsertedRow(e, id, received_at) ==
    [e EXCEPT !.id = id, !.received_at = received_at]

\* insert: "LogEntry inserted_entry = entry; inserted_entry.id = id;
\*          inserted_entry.received_at = received_at"
SubscriberEntry(e, id, received_at) ==
    [e EXCEPT !.id = id, !.received_at = received_at]

\* trigger logs_ai: INSERT INTO logs_fts(rowid, message)
TriggerAfterInsert(fts, row) ==
    fts \cup {[rowid |-> row.id, tokens |-> Tokens(row.message)]}

\* (variant: no delete trigger, the index keeps the entries of deleted rows)
TriggerAfterDeleteMissing(fts, deleted) == fts

\* trigger logs_ad: INSERT INTO logs_fts(logs_fts, rowid, message)
\*                  VALUES('delete', old.id, old.message), once per deleted row
TriggerAfterDelete(fts, deleted) ==
    fts \ {[rowid |-> r.id, tokens |-> Tokens(r.message)] : r \in deleted}

\* the rows of `rows` with the greatest received_at
MaxReceived(rows) ==
    {r \in rows : \A o \in rows : o.received_at <= r.received_at}

\* "ORDER BY received_at DESC LIMIT 1" names no tie-break: the engine may
\* yield any of the rows that share the greatest received_at
LatestRowChoices(rows) == IF rows = {} THEN {0} ELSE Ids(MaxReceived(rows))

\* "(SELECT session_id FROM logs ORDER BY received_at DESC LIMIT 1)" as a
\* scalar subquery: {} is NULL (no row)
LatestSessionSubquery ==
    {r.session_id : r \in {x \in logs : x.id = latest_row}}

\* (variant: the operations do not take the mutex)
lock_guard_absent == TRUE

\* std::lock_guard<std::mutex> lock(mutex_) can be taken
lock_guard == mutex_ = NoOwner

\* (variant: the latest-session predicate is added although the filter
\* names a session)
QueryWhereAlwaysLatest(r, f) ==
    /\ f.session_id # {} => r.session_id \in f.session_id
    /\ ~f.all_sessions => r.session_id \in LatestSessionSubquery
    /\ f.instance_id # {} => r.instance_id \in f.instance_id
    /\ f.source # {} => r.source \in f.source
    /\ f.min_verbosity # {} => \A v \in f.min_verbosity : r.verbosity <= v
    /\ f.category # {} => r.category \in f.category
    /\ f.since # {} => \A t \in f.since : r.timestamp >= t
    /\ f.until # {} => \A t \in f.until : r.timestamp <= t

\* (variant: no latest-session predicate for the default filter)
QueryWhereNoDefaultSession(r, f) ==
    /\ f.session_id # {} => r.session_id \in f.session_id
    /\ f.instance_id # {} => r.instance_id \in f.instance_id
    /\ f.source # {} => r.source \in f.source
    /\ f.min_verbosity # {} => \A v \in f.min_verbosity : r.verbosity <= v
    /\ f.category # {} => r.category \in f.category
    /\ f.since # {} => \A t \in f.since : r.timestamp >= t
    /\ f.until # {} => \A t \in f.until : r.timestamp <= t

\* (variant: the severity predicate is "verbosity >= ?")
QueryWhereSeverityAtLeast(r, f) ==
    /\ IF f.session_id # {} THEN r.session_id \in f.session_id
       ELSE IF ~f.all_sessions THEN r.session_id \in LatestSessionSubquery
       ELSE TRUE
    /\ f.instance_id # {} => r.instance_id \in f.instance_id
    /\ f.source # {} => r.source \in f.source
    /\ f.min_verbosity # {} => \A v \in f.min_verbosity : r.verbosity >= v
    /\ f.category # {} => r.category \in f.category
    /\ f.since # {} => \A t \in f.since : r.timestamp >= t
    /\ f.until # {} => \A t \in f.until : r.timestamp <= t

\* the WHERE clause LogStore::query builds
QueryWhere(r, f) ==
    /\ IF f.session_id # {} THEN r.session_id \in f.session_id
       ELSE IF ~f.all_sessions THEN r.session_id \in LatestSessionSubquery
       ELSE TRUE
    /\ f.instance_id # {} => r.instance_id \in f.instance_id
    /\ f.source # {} => r.source \in f.source
    /\ f.min_verbosity # {} => \A v \in f.min_verbosity : r.verbosity <= v
    /\ f.category # {} => r.category \in f.category
    /\ f.since # {} => \A t \in f.since : r.timestamp >= t
    /\ f.until # {} => \A t \in f.until : r.timestamp <= t

\* the WHERE clause LogStore::search builds (after the MATCH)
SearchWhere(r, f) ==
    /\ IF f.session_id # {} THEN r.session_id \in f.session_id
       ELSE IF ~f.all_sessions THEN r.session_id \in LatestSessionSubquery
       ELSE TRUE
    /\ f.instance_id # {} => r.instance_id \in f.instance_id
    /\ f.source # {} => r.source \in f.source
    /\ f.min_verbosity # {} => \A v \in f.min_verbosity : r.verbosity <= v
    /\ f.since # {} => \A t \in f.since : r.timestamp >= t
    /\ f.until # {} => \A t \in f.until : r.timestamp <= t

\* "FROM logs l JOIN logs_fts fts ON l.id = fts.rowid WHERE logs_fts MATCH ?"
\* for a query that is one word
FtsMatch(rows, fts, word) ==
    {r \in rows : \E x \in fts : x.rowid = r.id /\ word \in x.tokens}

\* "ORDER BY timestamp DESC": every arrangement with non-increasing
\* timestamp; rows of equal timestamp come in an order the engine picks
OrderByTimestampDesc(rows) ==
    {s \in Perms(rows) :
        \A i \in 1..(Len(s) - 1) : s[i].timestamp >= s[i + 1].timestamp}

\* "LIMIT limit OFFSET offset" (a negative LIMIT means no limit, a negative
\* OFFSET means 0)
LimitOffset(s, limit, offset) ==
    LET off == IF offset < 0 THEN 0 ELSE offset
        last == IF limit < 0 THEN Len(s) ELSE Min(Len(s), off + limit)
    IN  SubSeq(s, off + 1, last)

\* (variant: the DELETE statement lacks "AND timestamp < ?")
ClearWhereIgnoringBefore(r, source, before) ==
    source # {} => r.source \in source

\* the DELETE statement LogStore::clear builds
ClearWhere(r, source, before) ==
    /\ source # {} => r.source \in source
    /\ before # {} => \A b \in before : r.timestamp < b

\* an operation on the table: its name, arguments and result
ReadOp(op, q, f, src, res) ==
    [op |-> op, query |-> q, filter |-> f, source |-> src, result |-> res]

\* (variant: clear returns the number of rows left)
ClearOpReturningRemaining(source, before, changes) ==
    [op |-> "clear", query |-> "", filter |-> DefaultFilter,
     source |-> source, before |-> before,
     result |-> <<Cardinality(logs) - changes>>]

\* a call of clear(source, before) and the number it returned
ClearOp(source, before, changes) ==
    [op |-> "clear", query |-> "", filter |-> DefaultFilter,
     source |-> source, before |-> before, result |-> <<changes>>]

\* a call of get_stats(source, since) and the LogStats it returned
StatsOp(source, since, stats) ==
    [op |-> "get_stats", query |-> "", filter |-> DefaultFilter,
     source |-> source, since |-> since, result |-> <<stats>>]

\* how an insert ended: the id its caller got (0: none), the rowid it stored
\* (0: none), whether a callback threw, and the callbacks registered then
Outcome(kind, id, row, threw, subs) ==
    [kind |-> kind, id |-> id, row |-> row, threw |-> threw, subs |-> subs]

NoOutcome == Outcome("none", 0, 0, FALSE, 0)

NoOp == ReadOp("none", "", DefaultFilter, {}, <<>>)

(***************************************************************************)
(* Part 2: the ingestion plane.  LogEntry::to_json / from_json             *)
(* (src/src/log_entry.hpp), UdpReceiver (src/src/udp_receiver.hpp),        *)
(* FileTailer (file_tailer.cpp) and the ServerLog sink.                    *)
(***************************************************************************)
\* a datagram as handle_receive sees it: receive error, number of bytes,
\* whether the bytes parse as JSON, and the fields of the parsed object
Datagram(error, bytes, parses, json) ==
    [error |-> error, bytes_received |-> bytes, parses |-> parses,
     json |-> json]

\* a JSON value: its type and its content
JsonValue(type, value) == [type |-> type, value |-> value]

\* a JSON object with none of the keys of a LogEntry; a key that is present
\* holds one JsonValue
EmptyJson ==
    [id |-> {}, source |-> {}, category |-> {}, verbosity |-> {},
     message |-> {}, timestamp |-> {}, received_at |-> {},
     session_id |-> {}, instance_id |-> {}, frame |-> {}, file |-> {},
     line |-> {}]

\* no LogEntry is being encoded
NoCodec ==
    [step |-> "none", entry |-> NoEntry, json |-> EmptyJson,
     decoded |-> NoEntry]

\* no datagram was handled yet
NoDatagramHandled ==
    [n |-> 0, datagram |-> Datagram(FALSE, 0, FALSE, EmptyJson), now |-> 0,
     storage_error |-> FALSE, callback_error |-> FALSE]

\* the tailed file does not exist
NoFile == [exists |-> FALSE, content |-> <<>>]

\* SourceManager: no call made yet
NoSourceOp ==
    [op |-> "none", path |-> "", id |-> <<>>, start |-> "", result |-> <<>>]

\* nlohmann::json(): the null value
Null == JsonValue("null", <<>>)

\* how a function of the dispatcher ended: it returned `value` or threw a
\* std::exception whose what() is `value`; rows are the log rows in a
\* returned value, op and deleted the call it made on the store and the
\* rows that call deleted
Ended(kind, value, rows, op, deleted) ==
    [kind |-> kind, value |-> value, rows |-> rows, op |-> op,
     deleted |-> deleted]

\* McpServer: handle_request not called
NoRpc ==
    [request |-> Null, end |-> Ended("none", Null, <<>>, NoOp, {})]

\* a GET / connection that no client has opened yet
NoStream == [pc |-> "idle", session_id |-> <<>>, writable |-> FALSE,
             frames |-> <<>>]

\* HttpServer: no POST /messages handled yet
NoPost ==
    [n |-> 0, session_id |-> <<>>, parses |-> FALSE, dispatched |-> FALSE,
     end |-> Ended("none", Null, <<>>, NoOp, {}), status |-> 0,
     written |-> {}]

\* a pool worker that handles no POST /messages
NoHandler ==
    [pc |-> "idle", session_id |-> <<>>, end |-> Ended("none", Null, <<>>,
                                                       NoOp, {}),
     targets |-> <<>>, status |-> 0]

(***************************************************************************)
(* Initial state: a store just constructed on a fresh database file.       *)
(***************************************************************************)
Init ==
    /\ logs = {}
    /\ logs_fts = {}
    /\ sqlite_sequence = 0
    /\ latest_row = 0
    /\ mutex_ = NoOwner
    /\ subscribers_ = <<>>
    /\ pc = [w \in Workers |-> "idle"]
    /\ entry = [w \in Workers |-> NoEntry]
    /\ inserted_entry = [w \in Workers |-> NoEntry]
    /\ next_cb = [w \in Workers |-> 0]
    /\ outcome = [w \in Workers |-> NoOutcome]
    /\ notified = [c \in 1..MaxSubscribers |-> <<>>]
    /\ began = [w \in Workers |-> 0]
    /\ completed = <<>>
    /\ live_returned = {}
    /\ reused_after_empty = FALSE
    /\ lastOp = NoOp
    /\ codec = NoCodec
    /\ sink = <<>>
    /\ udp_running_ = FALSE
    /\ receive_pending = FALSE
    /\ handled = NoDatagramHandled
    /\ file = NoFile
    /\ lines_written = 0
    /\ rotations = 0
    /\ tail_running_ = FALSE
    /\ last_pos_ = 0
    /\ current_size = 0
    /\ tail_pc = "stopped"
    /\ pending = <<>>
    /\ rotated = FALSE
    /\ tailers_ = {}
    /\ next_id_ = 1
    /\ source_op = NoSourceOp
    /\ issued = <<>>
    /\ live = {}
    /\ rpc = NoRpc
    /\ http_running_ = FALSE
    /\ session_counter_ = 0
    /\ sse_clients_ = <<>>
    /\ streams = [i \in 1..MaxStreams |-> NoStream]
    /\ post = NoPost
    /\ broadcasts = 0
    /\ handlers = [w \in PostWorkers |-> NoHandler]
    /\ sse_mutex_ = NoOwner
    /\ writing = [i \in 1..MaxStreams |-> {}]
    /\ produced = <<>>

(***************************************************************************)
(* LogStore::insert, in the steps other threads can observe.               *)
(***************************************************************************)
\* a worker calls insert(e) and blocks on the store mutex
InsertCall(w, e) ==
    /\ pc[w] = "idle"
    /\ sqlite_sequence + Cardinality({v \in Workers : pc[v] = "wait"})
          < MaxRecords
    /\ pc' = [pc EXCEPT ![w] = "wait"]
    /\ entry' = [entry EXCEPT ![w] = e]
    /\ began' = [began EXCEPT ![w] = Len(subscribers_)]
    /\ outcome' = [outcome EXCEPT ![w] = NoOutcome]
    /\ lastOp' = NoOp
    /\ UNCHANGED ingestVars
    /\ UNCHANGED rpcVars
    /\ UNCHANGED <<storeVars, mutex_, subscribers_, inserted_entry, next_cb,
                   notified, histVars>>

\* (variant: the error is raised after the loop over the subscribers)
InsertStorageErrorAfterNotify(w) ==
    /\ pc[w] = "wait"
    /\ lock_guard
    /\ pc' = [pc EXCEPT ![w] = "idle"]
    /\ outcome' = [outcome EXCEPT ![w] =
                      Outcome("storage_error", 0, 0, FALSE, Len(subscribers_))]
    /\ entry' = [entry EXCEPT ![w] = NoEntry]
    /\ notified' = [c \in DOMAIN notified |->
                       IF c \in Range(subscribers_)
                       THEN Append(notified[c], SubscriberEntry(entry[w], 0, 0))
                       ELSE notified[c]]
    /\ UNCHANGED ingestVars
    /\ UNCHANGED rpcVars
    /\ UNCHANGED <<storeVars, mutex_, subscribers_, inserted_entry,
                   next_cb, began, histVars, lastOp>>

\* prepare or step fails: std::runtime_error leaves insert, nothing stored
InsertStorageError(w) ==
    /\ pc[w] = "wait"
    /\ lock_guard
    /\ pc' = [pc EXCEPT ![w] = "idle"]
    /\ outcome' = [outcome EXCEPT ![w] =
                      Outcome("storage_error", 0, 0, FALSE, Len(subscribers_))]
    /\ entry' = [entry EXCEPT ![w] = NoEntry]
    /\ UNCHANGED ingestVars
    /\ UNCHANGED rpcVars
    /\ UNCHANGED <<storeVars, mutex_, subscribers_, inserted_entry,
                   next_cb, notified, began, histVars, lastOp>>

\* lock, bind, step: the row and its full-text entry are stored
InsertPersist(w, now) ==
    /\ pc[w] = "wait"
    /\ lock_guard
    /\ LET received_at == ReceivedAt(entry[w], now)
           id == AutoincrementRowid(logs, sqlite_sequence)
           row == InsertedRow(entry[w], id, received_at)
       IN  /\ logs' = logs \cup {row}
           /\ logs_fts' = TriggerAfterInsert(logs_fts, row)
           /\ sqlite_sequence' = id
           /\ latest_row' \in LatestRowChoices(logs')
           /\ inserted_entry' = [inserted_entry EXCEPT ![w] =
                                    SubscriberEntry(entry[w], id, received_at)]
           /\ reused_after_empty' =
                 (reused_after_empty \/ (logs = {} /\ sqlite_sequence > 0))
    /\ mutex_' = w
    /\ next_cb' = [next_cb EXCEPT ![w] = 1]
    /\ pc' = [pc EXCEPT ![w] = "notify"]
    /\ entry' = [entry EXCEPT ![w] = NoEntry]
    /\ lastOp' = NoOp
    /\ UNCHANGED ingestVars
    /\ UNCHANGED rpcVars
    /\ UNCHANGED <<subscribers_, outcome, notified, began, completed,
                   live_returned>>

\* "for (auto& callback : subscribers_) callback(inserted_entry)": one
\* invocation; a callback that throws unwinds insert (there is no try/catch)
InsertNotify(w, throws) ==
    /\ pc[w] = "notify"
    /\ next_cb[w] <= Len(subscribers_)
    /\ LET cb == subscribers_[next_cb[w]]
       IN  notified' = [notified EXCEPT
                           ![cb] = Append(@, inserted_entry[w])]
    /\ IF throws
       THEN /\ mutex_' = NoOwner
            /\ pc' = [pc EXCEPT ![w] = "idle"]
            /\ outcome' = [outcome EXCEPT ![w] =
                  Outcome("callback_error", 0, inserted_entry[w].id, TRUE,
                          Len(subscribers_))]
            /\ next_cb' = [next_cb EXCEPT ![w] = 0]
            /\ inserted_entry' = [inserted_entry EXCEPT ![w] = NoEntry]
       ELSE /\ next_cb' = [next_cb EXCEPT ![w] = @ + 1]
            /\ UNCHANGED <<mutex_, pc, outcome, inserted_entry>>
    /\ UNCHANGED ingestVars
    /\ UNCHANGED rpcVars
    /\ UNCHANGED <<storeVars, subscribers_, entry, began, histVars, lastOp>>

\* one invocation of a callback that calls an operation of the same store:
\* the operation's lock_guard locks mutex_, which the worker owns since
\* insert began; std::mutex is not recursive, and on the pthread mutex it
\* is built from the second lock() of the owner does not return
InsertNotifyReenters(w) ==
    /\ pc[w] = "notify"
    /\ next_cb[w] <= Len(subscribers_)
    /\ LET cb == subscribers_[next_cb[w]]
       IN  notified' = [notified EXCEPT
                           ![cb] = Append(@, inserted_entry[w])]
    /\ pc' = [pc EXCEPT ![w] = "relock"]
    /\ UNCHANGED ingestVars
    /\ UNCHANGED rpcVars
    /\ UNCHANGED <<storeVars, mutex_, subscribers_, entry, inserted_entry,
                   next_cb, outcome, began, histVars, lastOp>>

\* "return id": the lock_guard is released
InsertReturn(w) ==
    /\ pc[w] = "notify"
    /\ next_cb[w] > Len(subscribers_)
    /\ mutex_' = NoOwner
    /\ pc' = [pc EXCEPT ![w] = "idle"]
    /\ outcome' = [outcome EXCEPT ![w] =
          Outcome("returned", inserted_entry[w].id, inserted_entry[w].id,
                  FALSE, Len(subscribers_))]
    /\ completed' = Append(completed,
          [id |-> inserted_entry[w].id, began |-> began[w],
           received_at |-> {r.received_at :
                              r \in {x \in logs : x.id = inserted_entry[w].id}}])
    /\ live_returned' = live_returned \cup
          {r \in logs : r.id = inserted_entry[w].id}
    /\ next_cb' = [next_cb EXCEPT ![w] = 0]
    /\ inserted_entry' = [inserted_entry EXCEPT ![w] = NoEntry]
    /\ UNCHANGED ingestVars
    /\ UNCHANGED rpcVars
    /\ UNCHANGED <<storeVars, subscribers_, entry, notified, began,
                   reused_after_empty, lastOp>>

(***************************************************************************)
(* LogStore::subscribe                                                     *)
(***************************************************************************)
Subscribe ==
    /\ lock_guard
    /\ Len(subscribers_) < MaxSubscribers
    /\ subscribers_' = Append(subscribers_, Len(subscribers_) + 1)
    /\ UNCHANGED ingestVars
    /\ UNCHANGED rpcVars
    /\ UNCHANGED <<storeVars, mutex_, insertVars, notified, histVars, lastOp>>

(***************************************************************************)
(* LogStore::clear                                                         *)
(***************************************************************************)
Clear(source, before) ==
    /\ lock_guard
    /\ LET deleted == {r \in logs : ClearWhere(r, source, before)}
       IN  /\ logs' = logs \ deleted
           /\ logs_fts' = TriggerAfterDelete(logs_fts, deleted)
           /\ latest_row' \in LatestRowChoices(logs')
           /\ lastOp' = ClearOp(source, before, Cardinality(deleted))
    /\ live_returned' = {}
    /\ UNCHANGED ingestVars
    /\ UNCHANGED rpcVars
    /\ UNCHANGED <<sqlite_sequence, mutex_, subscribers_, insertVars,
                   notified, completed, reused_after_empty>>

(***************************************************************************)
(* LogStore::query, search, count                                          *)
(***************************************************************************)
Query(f) ==
    /\ lock_guard
    /\ \E s \in OrderByTimestampDesc({r \in logs : QueryWhere(r, f)}) :
          lastOp' = ReadOp("query", "", f, {},
                           LimitOffset(s, f.limit, f.offset))
    /\ UNCHANGED ingestVars
    /\ UNCHANGED rpcVars
    /\ UNCHANGED <<storeVars, mutex_, subscribers_, insertVars, notified,
                   histVars>>

Search(q, f) ==
    /\ lock_guard
    /\ \E s \in OrderByTimestampDesc(
                   {r \in FtsMatch(logs, logs_fts, q) : SearchWhere(r, f)}) :
          lastOp' = ReadOp("search", q, f, {},
                           LimitOffset(s, f.limit, f.offset))
    /\ UNCHANGED ingestVars
    /\ UNCHANGED rpcVars
    /\ UNCHANGED <<storeVars, mutex_, subscribers_, insertVars, notified,
                   histVars>>

Count ==
    /\ lock_guard
    /\ lastOp' = ReadOp("count", "", DefaultFilter, {}, <<Cardinality(logs)>>)
    /\ UNCHANGED ingestVars
    /\ UNCHANGED rpcVars
    /\ UNCHANGED <<storeVars, mutex_, subscribers_, insertVars, notified,
                   histVars>>

\* "WHERE 1=1 [AND source = ?] [AND timestamp >= ?]" of get_stats
StatsWhere(r, source, since) ==
    /\ source # {} => r.source \in source
    /\ since # {} => \A t \in since : r.timestamp >= t

\* the LogStats value get_stats fills: of the rows of "GROUP BY source" only
\* those named "client" and "server" are copied into the result
LogStats(rows, current) ==
    [total_count |-> Cardinality(rows),
     client_count |-> Cardinality({r \in rows : r.source = "client"}),
     server_count |-> Cardinality({r \in rows : r.source = "server"}),
     error_count |-> Cardinality({r \in rows : r.verbosity <= 2}),
     warning_count |-> Cardinality({r \in rows : r.verbosity = 3}),
     by_category |-> {<<c, Cardinality({r \in rows : r.category = c})>> :
                         c \in {r.category : r \in rows}},
     session_count |-> Cardinality({r.session_id : r \in rows}),
     instance_count |-> Cardinality({r.instance_id : r \in rows}),
     current_session |-> current]

GetStats(source, since) ==
    /\ lock_guard
    /\ \E current \in (IF LatestSessionSubquery = {} THEN {""}
                        ELSE LatestSessionSubquery) :
          lastOp' = StatsOp(source, since,
                       LogStats({r \in logs : StatsWhere(r, source, since)},
                                current))
    /\ UNCHANGED ingestVars
    /\ UNCHANGED rpcVars
    /\ UNCHANGED <<storeVars, mutex_, subscribers_, insertVars, notified,
                   histVars>>

\* the caller of a read or clear is done with the value it got back
DropResult ==
    /\ lastOp # NoOp
    /\ lastOp' = NoOp
    /\ UNCHANGED ingestVars
    /\ UNCHANGED rpcVars
    /\ UNCHANGED <<storeVars, mutex_, subscribers_, insertVars, notified,
                   histVars>>

(***************************************************************************)
(* LogStore::get_sessions, get_latest_session                              *)
(***************************************************************************)
MinOf(S) == CHOOSE x \in S : \A y \in S : x <= y

\* "WHERE source = ?" when a source is given
SourceWhere(rows, source) ==
    {r \in rows : source # {} => r.source \in source}

\* one row of "SELECT session_id, MIN(received_at), MAX(received_at),
\* COUNT(*) FROM logs ... GROUP BY session_id", with the instance list
\* of "SELECT DISTINCT instance_id FROM logs WHERE session_id = ?"
SessionInfo(rows, sid, instances) ==
    LET grp == {r \in rows : r.session_id = sid}
    IN  [session_id |-> sid,
         first_seen |-> MinOf({r.received_at : r \in grp}),
         last_seen |-> MaxOf({r.received_at : r \in grp}),
         log_count |-> Cardinality(grp),
         instances |-> instances]

\* (variant: the instance statement lacks "WHERE session_id = ?")
DistinctInstancesOfAllSessions(rows, sid) ==
    Perms({r.instance_id : r \in rows})

\* DISTINCT instance_id of one session, in an order the engine picks
DistinctInstances(rows, sid) ==
    Perms({r.instance_id : r \in {x \in rows : x.session_id = sid}})

\* "GROUP BY session_id ORDER BY last_seen DESC"
SessionRows(rows) ==
    LET sids == {r.session_id : r \in rows}
        lastSeen(sid) ==
            MaxOf({r.received_at : r \in {x \in rows : x.session_id = sid}})
    IN  {s \in Perms(sids) :
            \A i \in 1..(Len(s) - 1) : lastSeen(s[i]) >= lastSeen(s[i + 1])}

GetSessions(source) ==
    /\ lock_guard
    /\ LET rows == SourceWhere(logs, source)
       IN  \E order \in SessionRows(rows) :
           \E inst \in [1..Len(order) ->
                          UNION {DistinctInstances(rows, order[i]) :
                                    i \in 1..Len(order)}] :
              /\ \A i \in 1..Len(order) :
                    inst[i] \in DistinctInstances(rows, order[i])
              /\ lastOp' = ReadOp("get_sessions", "", DefaultFilter, source,
                    [i \in 1..Len(order) |->
                        SessionInfo(rows, order[i], inst[i])])
    /\ UNCHANGED ingestVars
    /\ UNCHANGED rpcVars
    /\ UNCHANGED <<storeVars, mutex_, subscribers_, insertVars, notified,
                   histVars>>

\* "SELECT session_id FROM logs [WHERE source = ?] ORDER BY received_at DESC
\* LIMIT 1"; without a source this is the statement of the scalar subquery
\* of query and search, which the engine answers from the same row
LatestSessionResult(source) ==
    IF source = {}
    THEN IF LatestSessionSubquery = {} THEN {""} ELSE LatestSessionSubquery
    ELSE IF SourceWhere(logs, source) = {} THEN {""}
         ELSE {r.session_id : r \in MaxReceived(SourceWhere(logs, source))}

GetLatestSession(source) ==
    /\ lock_guard
    /\ \E res \in LatestSessionResult(source) :
          lastOp' = ReadOp("get_latest_session", "", DefaultFilter, source,
                           <<res>>)
    /\ UNCHANGED ingestVars
    /\ UNCHANGED rpcVars
    /\ UNCHANGED <<storeVars, mutex_, subscribers_, insertVars, notified,
                   histVars>>

(***************************************************************************)
(* Inputs.                                                                 *)
(***************************************************************************)
Sessions == {"", "A", "B"}
Instances == {"i1", "i2"}
Sources == {"client", "server"}
Categories == {"LogTemp", "LogNet"}
Messages == {<<"player", "spawned">>, <<"enemy">>}
Words == {"player", "spawned", "enemy"}
Timestamps == {1, 2}

\* records of the ingest workers: two sessions, the store stamps the time
IngestEntries ==
    {LogEntry("client", "LogTemp", Log, <<"player">>, 1, 0, s, "i1") :
        s \in {"A", "B"}}

\* the clock does not move while the ingest workers race
IngestClock == {1}

\* filters by session and instance
IngestFilters ==
    {LogFilter({}, {}, {}, {}, {}, {s}, {"i1"}, FALSE, lim, 0) :
        s \in {"A", "B"}, lim \in {1, DefaultLimit}}

\* the record the notifying workers insert
NotifyEntries ==
    {LogEntry("client", "LogTemp", Log, <<"player">>, 1, 0, "A", "i1")}

(***************************************************************************)
(* Subscriber fan-out: two workers insert while callbacks are registered;  *)
(* a callback may throw.                                                   *)
(***************************************************************************)
Next ==
    \/ \E w \in Workers, e \in NotifyEntries : InsertCall(w, e)
    \/ \E w \in Workers : InsertStorageError(w)
    \/ \E w \in Workers, now \in IngestClock : InsertPersist(w, now)
    \/ \E w \in Workers, throws \in BOOLEAN : InsertNotify(w, throws)
    \/ \E w \in Workers : InsertReturn(w)
    \/ Subscribe

Spec == Init /\ [][Next]_vars

\* C38: when persisting the record fails, insert raises a storage error to
\* its caller, invokes no subscriber and leaves the stored records and the
\* full-text index as they were.
C38_FailedInsertLeavesNoTrace ==
    [][\A w \in Workers :
          (outcome'[w] # outcome[w] /\ outcome'[w].kind = "storage_error")
             => /\ pc'[w] = "idle"
                /\ outcome'[w].id = 0
                /\ notified' = notified
                /\ logs' = logs
                /\ logs_fts' = logs_fts
                /\ sqlite_sequence' = sqlite_sequence]_vars

\* an insert failed on a store that holds a record and has a subscriber
\* that was notified of that record only
C38_Witness ==
    /\ \E w \in Workers : outcome[w].kind = "storage_error"
    /\ subscribers_ # <<>>
    /\ Cardinality(logs) = 1
    /\ Len(notified[subscribers_[1]]) = 1

(***************************************************************************)
(* Callbacks under the store guard: two workers insert, callbacks may call *)
(* back into the store, a third thread queries and clears.                 *)
(***************************************************************************)
NextReenter ==
    \/ \E w \in Workers, e \in NotifyEntries : InsertCall(w, e)
    \/ \E w \in Workers, now \in IngestClock : InsertPersist(w, now)
    \/ \E w \in Workers : InsertNotify(w, FALSE)
    \/ \E w \in Workers : InsertNotifyReenters(w)
    \/ \E w \in Workers : InsertReturn(w)
    \/ Subscribe
    \/ lastOp = NoOp /\ Clear({}, {})
    \/ lastOp = NoOp /\ Query(DefaultFilter)
    \/ DropResult

SpecReenter == Init /\ [][NextReenter]_vars

\* C39: the callbacks of an insert run while its worker holds the store
\* guard; from the persistence of the record to the end of its
\* notifications no operation of another thread takes effect on the store;
\* and a worker whose callback called an operation of the same store
\* stays blocked in it for ever, holding the guard, so that every later
\* caller of the store is blocked too.
C39_CallbacksRunUnderTheGuard ==
    [][/\ \A w \in Workers : pc[w] \in {"notify", "relock"} => mutex_ = w
       /\ mutex_ # NoOwner
             => /\ logs' = logs
                /\ logs_fts' = logs_fts
                /\ subscribers_' = subscribers_
                /\ lastOp' \in {lastOp, NoOp}
                /\ \A w \in Workers :
                      pc'[w] = "notify" => pc[w] = "notify"
       /\ \A w \in Workers :
             pc[w] = "relock" => pc'[w] = "relock" /\ mutex_' = w]_vars

\* a callback called back into the store after its record was stored, and
\* the other worker waits in insert
C39_Witness ==
    \E w, v \in Workers :
       /\ pc[w] = "relock"
       /\ pc[v] = "wait"
       /\ logs # {}
       /\ \E c \in DOMAIN notified : notified[c] # <<>>

(***************************************************************************)
(* Concurrent ingest: two workers insert while a third thread clears and   *)
(* queries the store.                                                      *)
(***************************************************************************)
NextIngest ==
    \/ \E w \in Workers, e \in IngestEntries : InsertCall(w, e)
    \/ \E w \in Workers : InsertStorageError(w)
    \/ \E w \in Workers, now \in IngestClock : InsertPersist(w, now)
    \/ \E w \in Workers : InsertReturn(w)
    \/ lastOp = NoOp /\ Clear({}, {})
    \/ lastOp = NoOp /\ \E f \in IngestFilters : Query(f)
    \/ DropResult

SpecIngest == Init /\ [][NextIngest]_vars

(***************************************************************************)
(* Claims about the fan-out (Spec) and concurrent ingest (SpecIngest).     *)
(***************************************************************************)
\* the positions at which callback c was invoked with the row of this id
Invocations(c, id) == {k \in DOMAIN notified[c] : notified[c][k].id = id}

\* C1: for every insert that has returned and every callback registered
\* before that insert was called, the callback was invoked exactly once with
\* that record, carrying the id and the receive time the store assigned; and
\* every callback sees the records in strictly increasing id order.
C1_NotifiedOncePerInsertInIdOrder ==
    /\ \A i \in DOMAIN completed :
          \A c \in 1..completed[i].began :
             /\ Cardinality(Invocations(c, completed[i].id)) = 1
             /\ \A k \in Invocations(c, completed[i].id) :
                   /\ notified[c][k].id > 0
                   /\ notified[c][k].received_at # 0
                   /\ notified[c][k].received_at \in completed[i].received_at
    /\ \A c \in DOMAIN notified :
          \A k1, k2 \in DOMAIN notified[c] :
             k1 < k2 => notified[c][k1].id < notified[c][k2].id

\* two inserts have returned, both were announced to a callback that was
\* registered before the first of them was called
C1_Witness ==
    /\ Len(completed) >= 2
    /\ completed[1].began >= 1
    /\ Len(notified[1]) >= 2

\* C2: when a callback has thrown during an insert, that insert still
\* returned the assigned id, the row is stored, and every callback
\* registered at that time was invoked with the row.
C2_CallbackErrorSwallowed ==
    \A w \in Workers :
       (pc[w] = "idle" /\ outcome[w].threw) =>
          /\ outcome[w].kind = "returned"
          /\ outcome[w].id = outcome[w].row
          /\ \A c \in 1..outcome[w].subs : Invocations(c, outcome[w].row) # {}

\* C3: every id insert returned is positive and greater than every id
\* returned before it, whatever clears ran in between.
C3_IdsStrictlyIncrease ==
    \A i \in DOMAIN completed :
       /\ completed[i].id > 0
       /\ \A j \in 1..(i - 1) : completed[j].id < completed[i].id

\* an insert returned an id after a clear had emptied a store that had
\* held rows
C3_Witness ==
    /\ reused_after_empty
    /\ Len(completed) >= 2
    /\ completed[Len(completed)].id = sqlite_sequence

\* C5: a query by session_id and instance_id (no other filter field, limit
\* larger than the number of matching rows) that runs after an insert
\* returned, with no clear in between, contains the inserted row.
C5_QueryObservesReturnedInserts ==
    (/\ lastOp.op = "query"
     /\ lastOp.filter.session_id # {}
     /\ lastOp.filter.instance_id # {}
     /\ lastOp.filter.limit >
           Cardinality({r \in logs : QueryWhere(r, lastOp.filter)}))
    => \A r \in live_returned :
          (/\ r.session_id \in lastOp.filter.session_id
           /\ r.instance_id \in lastOp.filter.instance_id)
          => r \in Range(lastOp.result)

\* a query returned a row whose insert had returned while the other worker
\* is inside insert
C5_Witness ==
    /\ lastOp.op = "query"
    /\ lastOp.result # <<>>
    /\ live_returned # {}
    /\ \E w \in Workers : pc[w] = "wait"

(***************************************************************************)
(* Sessions: one caller inserts rows of several sessions and instances at  *)
(* equal or different receive times, then reads with the default filter.   *)
(***************************************************************************)
Caller == "w1"

\* the one calling thread is not inside insert and holds no earlier result
Idle == pc[Caller] = "idle" /\ lastOp = NoOp

SessionEntries ==
    {LogEntry("client", "LogTemp", Log, <<"player">>, 1, 0, s, i) :
        s \in Sessions, i \in Instances}

SessionFilters ==
    {LogFilter({}, {}, {}, {}, {}, sid, {}, all, DefaultLimit, 0) :
        sid \in {{}, {"A"}}, all \in BOOLEAN}

NextSessions ==
    \/ \E e \in SessionEntries : InsertCall(Caller, e)
    \/ \E now \in Clock : InsertPersist(Caller, now)
    \/ InsertReturn(Caller)
    \/ Idle /\ Clear({}, {})
    \/ Idle /\ \E f \in SessionFilters : Query(f)
    \/ Idle /\ \E f \in SessionFilters : Search("player", f)
    \/ Idle /\ GetLatestSession({})
    \/ Idle /\ GetSessions({})
    \/ DropResult

SpecSessions == Init /\ [][NextSessions]_vars

\* the filter sets nothing but session_id and all_sessions, and its limit
\* exceeds the number of stored rows
OnlySessionFields(f) ==
    /\ f.instance_id = {} /\ f.source = {} /\ f.min_verbosity = {}
    /\ f.category = {} /\ f.since = {} /\ f.until = {}
    /\ f.offset = 0 /\ f.limit > Cardinality(logs)

\* C4: query and search with no session_id and all_sessions = FALSE return
\* only rows of the session latest_session() returns in the same store
\* state, and nothing from an empty store; with all_sessions = TRUE the rows
\* of every session are returned.
C4_DefaultFilterIsLatestSession ==
    (lastOp.op \in {"query", "search"} /\ lastOp.filter.session_id = {}) =>
       IF ~lastOp.filter.all_sessions
       THEN /\ \A r \in Range(lastOp.result) :
                  r.session_id \in LatestSessionResult({})
            /\ logs = {} => lastOp.result = <<>>
       ELSE OnlySessionFields(lastOp.filter) =>
               Range(lastOp.result) =
                  IF lastOp.op = "query" THEN logs
                  ELSE {r \in logs : lastOp.query \in Tokens(r.message)}

\* a default-filter query answered with rows while another session is stored
C4_Witness ==
    /\ lastOp.op = "query"
    /\ lastOp.filter.session_id = {}
    /\ ~lastOp.filter.all_sessions
    /\ lastOp.result # <<>>
    /\ Cardinality({r.session_id : r \in logs}) >= 2

\* the session of the row with the greatest id among those of greatest
\* received_at ({} for an empty table)
SessionOfGreatestIdAmongLatest ==
    {r.session_id : r \in {x \in MaxReceived(logs) :
                              \A o \in MaxReceived(logs) : o.id <= x.id}}

\* C7: when several rows share the greatest received_at, the latest session
\* (get_latest_session and the default filter of query and search) is the
\* session of the one with the greatest id.
C7_LatestSessionTieBrokenById ==
    /\ (lastOp.op = "get_latest_session" /\ logs # {}) =>
          lastOp.result[1] \in SessionOfGreatestIdAmongLatest
    /\ (/\ lastOp.op \in {"query", "search"}
        /\ lastOp.filter.session_id = {}
        /\ ~lastOp.filter.all_sessions) =>
          \A r \in Range(lastOp.result) :
             r.session_id \in SessionOfGreatestIdAmongLatest

\* C10: get_sessions without a source has exactly one summary per stored
\* session_id, with log_count the number of rows of that session and
\* instances exactly its distinct instance_id values, ordered by last_seen
\* descending.
C10_SessionSummaries ==
    (lastOp.op = "get_sessions" /\ lastOp.source = {}) =>
       LET res == lastOp.result
       IN  /\ {res[i].session_id : i \in DOMAIN res} =
                 {r.session_id : r \in logs}
           /\ \A i, j \in DOMAIN res :
                 res[i].session_id = res[j].session_id => i = j
           /\ \A i \in DOMAIN res :
                 LET grp == {r \in logs : r.session_id = res[i].session_id}
                 IN  /\ res[i].log_count = Cardinality(grp)
                     /\ Range(res[i].instances) = {r.instance_id : r \in grp}
                     /\ Len(res[i].instances) =
                           Cardinality({r.instance_id : r \in grp})
           /\ \A i \in 1..(Len(res) - 1) :
                 res[i].last_seen >= res[i + 1].last_seen

\* get_sessions answered with two summaries while both instances are stored
C10_Witness ==
    /\ lastOp.op = "get_sessions"
    /\ Len(lastOp.result) >= 2
    /\ Cardinality({r.instance_id : r \in logs}) >= 2

(***************************************************************************)
(* Filters: one caller inserts rows of one session that differ in          *)
(* category, emit time and message, clears, and reads with filters on      *)
(* those fields, with limit and offset.                                    *)
(***************************************************************************)
FilterEntries ==
    {LogEntry("client", c, Log, m, t, 0, "A", "i1") :
        c \in Categories, m \in Messages, t \in Timestamps}

FilterFilters ==
    {LogFilter({}, {}, c, since, {}, {}, {}, FALSE, lo[1], lo[2]) :
        c \in {{}, {"LogNet"}}, since \in {{}, {2}},
        lo \in {<<DefaultLimit, 0>>, <<1, 0>>, <<1, 1>>}}

NextFilters ==
    \/ \E e \in FilterEntries : InsertCall(Caller, e)
    \/ InsertPersist(Caller, 1)
    \/ InsertReturn(Caller)
    \/ Idle /\ \E before \in {{}, {2}} : Clear({}, before)
    \/ Idle /\ \E f \in FilterFilters : Query(f)
    \/ Idle /\ \E q \in {"player", "enemy"}, f \in FilterFilters : Search(q, f)
    \/ DropResult

SpecFilters == Init /\ [][NextFilters]_vars

\* the rows in the one order that sorts by timestamp descending and breaks
\* ties by id descending
ByTimestampThenIdDesc(rows) ==
    CHOOSE s \in Perms(rows) :
       \A i \in 1..(Len(s) - 1) :
          \/ s[i].timestamp > s[i + 1].timestamp
          \/ s[i].timestamp = s[i + 1].timestamp /\ s[i].id > s[i + 1].id

\* C6: the result of query and of search is the matching rows sorted by
\* emit time descending, ties by id descending, cut to the `limit` rows
\* after the first `offset` rows.
C6_OrderedByEmitTimeThenId ==
    /\ lastOp.op = "query" =>
          lastOp.result =
             LimitOffset(
                ByTimestampThenIdDesc(
                   {r \in logs : QueryWhere(r, lastOp.filter)}),
                lastOp.filter.limit, lastOp.filter.offset)
    /\ lastOp.op = "search" =>
          lastOp.result =
             LimitOffset(
                ByTimestampThenIdDesc(
                   {r \in FtsMatch(logs, logs_fts, lastOp.query) :
                       SearchWhere(r, lastOp.filter)}),
                lastOp.filter.limit, lastOp.filter.offset)

\* C8: the full-text index holds exactly the live rows: one entry per stored
\* id with the words of its message; a search returns stored rows only, and
\* with the default filter and a limit above the row count it returns every
\* stored row of the latest session whose message has the word.
C8_FullTextIndexIsLiveRows ==
    /\ logs_fts = {[rowid |-> r.id, tokens |-> Tokens(r.message)] : r \in logs}
    /\ lastOp.op = "search" => Range(lastOp.result) \subseteq logs
    /\ (lastOp.op = "search" /\ OnlySessionFields(lastOp.filter)) =>
          \A r \in logs :
             (/\ lastOp.query \in Tokens(r.message)
              /\ r.session_id \in LatestSessionResult({}))
             => r \in Range(lastOp.result)

\* a search found a row in a store from which clear has deleted rows
C8_Witness ==
    /\ lastOp.op = "search"
    /\ lastOp.result # <<>>
    /\ sqlite_sequence > Cardinality(logs)

\* row r passes every field that filter f sets
SatisfiesFilter(r, f) ==
    /\ f.session_id # {} => r.session_id \in f.session_id
    /\ f.instance_id # {} => r.instance_id \in f.instance_id
    /\ f.source # {} => r.source \in f.source
    /\ f.min_verbosity # {} => \A v \in f.min_verbosity : r.verbosity <= v
    /\ f.category # {} => r.category \in f.category
    /\ f.since # {} => \A t \in f.since : r.timestamp >= t
    /\ f.until # {} => \A t \in f.until : r.timestamp <= t

\* C9: every row search returns passes every field its filter sets.
C9_SearchHonoursEveryFilterField ==
    lastOp.op = "search" =>
       \A r \in Range(lastOp.result) : SatisfiesFilter(r, lastOp.filter)


(***************************************************************************)
(* Deletion: one caller inserts rows of two sources at two emit times and  *)
(* clears by source and by emit time.                                      *)
(***************************************************************************)
ClearEntries ==
    {LogEntry(src, "LogTemp", Log, msg, ts, 0, "A", "i1") :
        src \in {"client", "file-tailer"}, msg \in Messages,
        ts \in Timestamps}

ClearSources == {{}, {"client"}, {"file-tailer"}}

ClearBefore == {{}, {2}}

NextClear ==
    \/ \E e \in ClearEntries : InsertCall(Caller, e)
    \/ InsertPersist(Caller, 1)
    \/ InsertReturn(Caller)
    \/ Idle /\ \E source \in ClearSources, before \in ClearBefore :
                  Clear(source, before)
    \/ DropResult

SpecClear == Init /\ [][NextClear]_vars

\* C11: a step in which clear(source, before) completes deletes exactly the
\* rows of that source (with emit time strictly below `before` when given),
\* returns their number, leaves every other row and every other full-text
\* entry as it was, and, when no `before` is given, leaves no row of that
\* source.
C11_ClearDeletesExactlyTheSource ==
    [][lastOp'.op = "clear" =>
          LET matched ==
                 {r \in logs :
                     /\ lastOp'.source # {} => r.source \in lastOp'.source
                     /\ lastOp'.before # {} =>
                           \A b \in lastOp'.before : r.timestamp < b}
          IN  /\ logs' = logs \ matched
              /\ lastOp'.result = <<Cardinality(matched)>>
              /\ logs_fts' = {x \in logs_fts : x.rowid \notin Ids(matched)}
              /\ (lastOp'.source # {} /\ lastOp'.before = {}) =>
                    \A r \in logs' : r.source \notin lastOp'.source]_vars

\* clear(source, before) deleted a row and left a row of that source (not
\* older than `before`) and its full-text entry in place
C11_Witness ==
    /\ lastOp.op = "clear"
    /\ lastOp.source # {}
    /\ lastOp.before # {}
    /\ lastOp.result[1] >= 1
    /\ \E r \in logs : r.source \in lastOp.source
    /\ logs_fts # {}

(***************************************************************************)
(* Administration: one caller inserts rows of three sources, clears the    *)
(* whole store, counts and asks for statistics.                            *)
(***************************************************************************)
AdminEntries ==
    {LogEntry(src, "LogTemp", verb, <<"player">>, 1, 0, "A", "i1") :
        src \in {"client", "server", "file-tailer"},
        verb \in {Error, Warning}}

\* the caller is between calls, or holds the result of a clear
AfterClear == pc[Caller] = "idle" /\ lastOp.op \in {"none", "clear"}

NextAdmin ==
    \/ \E e \in AdminEntries : InsertCall(Caller, e)
    \/ InsertPersist(Caller, 1)
    \/ InsertReturn(Caller)
    \/ AfterClear /\ Clear({}, {})
    \/ AfterClear /\ Count
    \/ Idle /\ \E source \in {{}, {"client"}} : GetStats(source, {})
    \/ DropResult

SpecAdmin == Init /\ [][NextAdmin]_vars

\* clear() without arguments
NoArgClear(op) == op.op = "clear" /\ op.source = {} /\ op.before = {}

\* C12: clear() returns the number of rows stored before it; a clear() that
\* directly follows a clear() returns 0; count() directly after a clear()
\* returns 0.
C12_ClearTwice ==
    [][/\ (lastOp.op = "none" /\ NoArgClear(lastOp')) =>
             lastOp'.result = <<Cardinality(logs)>>
       /\ (NoArgClear(lastOp) /\ NoArgClear(lastOp')) =>
             lastOp'.result = <<0>>
       /\ (NoArgClear(lastOp) /\ lastOp'.op = "count") =>
             lastOp'.result = <<0>>]_vars

\* a clear() returned 0 on a store that had held rows: an earlier clear()
\* emptied it and nothing was inserted since
C12_Witness ==
    /\ NoArgClear(lastOp)
    /\ lastOp.result = <<0>>
    /\ sqlite_sequence > 0
    /\ pc[Caller] = "idle"

\* C13: the LogStats value of get_stats() accounts for every source label:
\* the per-source counts it reports sum to total, and total is the number
\* of stored rows when no filter is given.
C13_StatsCountEverySource ==
    (lastOp.op = "get_stats" /\ lastOp.source = {} /\ lastOp.since = {}) =>
       /\ lastOp.result[1].total_count = Cardinality(logs)
       /\ lastOp.result[1].client_count + lastOp.result[1].server_count
             = lastOp.result[1].total_count

(***************************************************************************)
(* Severity: one caller inserts rows of every severity and queries with a  *)
(* minimum severity.                                                       *)
(***************************************************************************)
Verbosities ==
    {NoLogging, Fatal, Error, Warning, Display, Log, Verbose, VeryVerbose}

SeverityEntries ==
    {LogEntry(src, "LogTemp", verb, <<"player">>, 1, 0, "A", "i1") :
        src \in Sources, verb \in Verbosities}

SeverityFilters ==
    {LogFilter(src, verb, {}, {}, {}, {}, {}, FALSE, DefaultLimit,
               DefaultOffset) :
        src \in {{}, {"client"}},
        verb \in {{}} \cup {{v} : v \in Verbosities}}

NextSeverity ==
    \/ \E e \in SeverityEntries : InsertCall(Caller, e)
    \/ InsertPersist(Caller, 1)
    \/ InsertReturn(Caller)
    \/ Idle /\ \E f \in SeverityFilters : Query(f)
    \/ DropResult

SpecSeverity == Init /\ [][NextSeverity]_vars

\* C14: a query with minimum severity X returns exactly the rows that match
\* the rest of the filter and whose severity ordinal is at most ordinal(X);
\* with X = Error no Warning, Display, Log, Verbose or VeryVerbose row is
\* returned and every otherwise-matching Fatal and Error row is.
C14_MinimumSeverityAdmitsAtMostOrdinal ==
    (lastOp.op = "query" /\ lastOp.filter.min_verbosity # {}) =>
       LET rest == [lastOp.filter EXCEPT !.min_verbosity = {}]
           other == {r \in logs : QueryWhere(r, rest)}
       IN  \A X \in lastOp.filter.min_verbosity :
              /\ Range(lastOp.result) = {r \in other : r.verbosity <= X}
              /\ X = Error =>
                    /\ \A r \in Range(lastOp.result) :
                          r.verbosity \notin
                             {Warning, Display, Log, Verbose, VeryVerbose}
                    /\ \A r \in other :
                          r.verbosity \in {Fatal, Error} =>
                             r \in Range(lastOp.result)

\* a query with minimum severity Error returned an Error row and left a
\* stored Warning row out
C14_Witness ==
    /\ lastOp.op = "query"
    /\ lastOp.filter.min_verbosity = {Error}
    /\ \E r \in Range(lastOp.result) : r.verbosity = Error
    /\ \E r \in logs : r.verbosity = Warning /\ r \notin Range(lastOp.result)

(***************************************************************************)
(* LogEntry::to_json and LogEntry::from_json                               *)
(***************************************************************************)
verbosity_to_string(v) ==
    CASE v = NoLogging -> "NoLogging"
      [] v = Fatal -> "Fatal"
      [] v = Error -> "Error"
      [] v = Warning -> "Warning"
      [] v = Display -> "Display"
      [] v = Log -> "Log"
      [] v = Verbose -> "Verbose"
      [] v = VeryVerbose -> "VeryVerbose"
      [] OTHER -> "Unknown"

\* every string that is not one of the seven names is Verbosity::Log
string_to_verbosity(str) ==
    CASE str = "Fatal" -> Fatal
      [] str = "Error" -> Error
      [] str = "Warning" -> Warning
      [] str = "Display" -> Display
      [] str = "Log" -> Log
      [] str = "Verbose" -> Verbose
      [] str = "VeryVerbose" -> VeryVerbose
      [] OTHER -> Log

to_json(e) ==
    [id |-> {JsonValue("number", e.id)},
     source |-> {JsonValue("string", e.source)},
     category |-> {JsonValue("string", e.category)},
     verbosity |-> {JsonValue("string", verbosity_to_string(e.verbosity))},
     message |-> {JsonValue("string", e.message)},
     timestamp |-> {JsonValue("number", e.timestamp)},
     received_at |-> {JsonValue("number", e.received_at)},
     session_id |-> {JsonValue("string", e.session_id)},
     instance_id |-> {JsonValue("string", e.instance_id)},
     frame |-> {JsonValue("number", x) : x \in e.frame},
     file |-> {JsonValue("string", x) : x \in e.file},
     line |-> {JsonValue("number", x) : x \in e.line}]

\* the keys from_json reads as numbers and as strings
NumberKeys == {"id", "timestamp", "received_at", "frame", "line"}
StringKeys == {"source", "category", "verbosity", "message", "session_id",
               "instance_id", "file"}

\* get<T>() and value(key, default) throw json::type_error when the key is
\* present with a value of another type
from_json_throws(j) ==
    \/ \E k \in NumberKeys : \E x \in j[k] : x.type # "number"
    \/ \E k \in StringKeys : \E x \in j[k] : x.type # "string"

\* j.value(key, default)
JsonValueOr(j, key, default) ==
    IF j[key] = {} THEN default ELSE (CHOOSE x \in j[key] : TRUE).value

\* the LogEntry from_json builds when no conversion throws
from_json(j) ==
    [id |-> JsonValueOr(j, "id", 0),
     source |-> JsonValueOr(j, "source", "unknown"),
     category |-> JsonValueOr(j, "category", "LogTemp"),
     verbosity |-> string_to_verbosity(JsonValueOr(j, "verbosity", "Log")),
     message |-> JsonValueOr(j, "message", <<>>),
     timestamp |-> JsonValueOr(j, "timestamp", 0),
     frame |-> {x.value : x \in j.frame},
     file |-> {x.value : x \in j.file},
     line |-> {x.value : x \in j.line},
     received_at |-> JsonValueOr(j, "received_at", 0),
     session_id |-> JsonValueOr(j, "session_id", ""),
     instance_id |-> JsonValueOr(j, "instance_id", "")]

\* entry.to_json()
JsonEncode(e) ==
    /\ codec.step = "none"
    /\ codec' = [step |-> "encoded", entry |-> e, json |-> to_json(e),
                 decoded |-> NoEntry]
    /\ UNCHANGED rpcVars
    /\ UNCHANGED <<storeVars, mutex_, subscribers_, insertVars, notified,
                   histVars, lastOp, sink, udpVars, fileVars, tailVars>>

\* LogEntry::from_json(json)
JsonDecode ==
    /\ codec.step = "encoded"
    /\ ~from_json_throws(codec.json)
    /\ codec' = [codec EXCEPT !.step = "decoded",
                              !.decoded = from_json(codec.json)]
    /\ UNCHANGED rpcVars
    /\ UNCHANGED <<storeVars, mutex_, subscribers_, insertVars, notified,
                   histVars, lastOp, sink, udpVars, fileVars, tailVars>>

\* the decoded entry goes out of scope
JsonDone ==
    /\ codec.step = "decoded"
    /\ codec' = NoCodec
    /\ UNCHANGED rpcVars
    /\ UNCHANGED <<storeVars, mutex_, subscribers_, insertVars, notified,
                   histVars, lastOp, sink, udpVars, fileVars, tailVars>>

\* entries of every severity, with and without frame, file and line
JsonEntries ==
    {[LogEntry("server", "LogNet", verb, <<"player">>, 2, recv, sid, iid)
         EXCEPT !.id = id, !.frame = frame, !.file = fl, !.line = line] :
        verb \in Verbosities, recv \in {0, 1}, sid \in {"", "A"},
        iid \in {"i1"}, id \in {0, 42}, frame \in {{}, {100}},
        fl \in {{}, {"NetDriver.cpp"}}, line \in {{}, {256}}}

NextJson ==
    \/ \E e \in JsonEntries : JsonEncode(e)
    \/ JsonDecode
    \/ JsonDone

SpecJson == Init /\ [][NextJson]_vars

\* C15: from_json(to_json(r)) equals r in source, category, severity,
\* message, emit time, session_id, instance_id and in each of frame, file
\* and line that is set, for every severity.
C15_JsonRoundTrip ==
    codec.step = "decoded" =>
       /\ codec.decoded.source = codec.entry.source
       /\ codec.decoded.category = codec.entry.category
       /\ codec.decoded.verbosity = codec.entry.verbosity
       /\ codec.decoded.message = codec.entry.message
       /\ codec.decoded.timestamp = codec.entry.timestamp
       /\ codec.decoded.session_id = codec.entry.session_id
       /\ codec.decoded.instance_id = codec.entry.instance_id
       /\ codec.entry.frame # {} => codec.decoded.frame = codec.entry.frame
       /\ codec.entry.file # {} => codec.decoded.file = codec.entry.file
       /\ codec.entry.line # {} => codec.decoded.line = codec.entry.line

(***************************************************************************)
(* LogStore::insert as one step, for a caller that is the only thread      *)
(* inside the store: the row and its full-text entry are stored and the    *)
(* callbacks are invoked in order; throwAt is the position of the callback *)
(* that throws (0: none does), which ends the loop.                        *)
(***************************************************************************)
InsertWhole(e, now, throwAt) ==
    LET received_at == ReceivedAt(e, now)
        id == AutoincrementRowid(logs, sqlite_sequence)
        row == InsertedRow(e, id, received_at)
        last == IF throwAt = 0 THEN Len(subscribers_) ELSE throwAt
        invoked == {subscribers_[k] : k \in 1..last}
    IN  /\ lock_guard
        /\ logs' = logs \cup {row}
        /\ logs_fts' = TriggerAfterInsert(logs_fts, row)
        /\ sqlite_sequence' = id
        /\ latest_row' \in LatestRowChoices(logs')
        /\ notified' = [c \in DOMAIN notified |->
                           IF c \in invoked
                           THEN Append(notified[c],
                                       SubscriberEntry(e, id, received_at))
                           ELSE notified[c]]

(***************************************************************************)
(* ServerLog                                                               *)
(***************************************************************************)
\* ServerLog::error(component, ...) and ServerLog::log(component, ...)
Report(component, is_error) ==
    [component |-> component, is_error |-> is_error]

(***************************************************************************)
(* UdpReceiver                                                             *)
(***************************************************************************)
\* (variant: handle_receive leaves received_at as from_json read it)
StampReceivedMissing(e, now) == e

\* "entry.received_at = now" in handle_receive
StampReceived(e, now) == [e EXCEPT !.received_at = now]

\* start(): running_ = true; start_receive()
UdpStart ==
    /\ ~udp_running_
    /\ udp_running_' = TRUE
    /\ receive_pending' = TRUE
    /\ UNCHANGED rpcVars
    /\ UNCHANGED <<storeVars, mutex_, subscribers_, insertVars, notified,
                   histVars, lastOp, codecVars, sink, handled, fileVars,
                   tailVars>>

\* handle_receive for one completed receive: parse, from_json, stamp,
\* insert; every std::exception is caught and reported; start_receive()
UdpHandleReceive(d, now, fails, throwAt) ==
    LET accepted == ~d.error /\ d.bytes_received > 0
        parsed == accepted /\ d.parses /\ ~from_json_throws(d.json)
        stored == parsed /\ ~fails
        threw == stored /\ throwAt > 0
        reported == accepted /\ (~parsed \/ fails \/ threw)
    IN  /\ udp_running_
        /\ receive_pending
        /\ handled.n < MaxDatagrams
        /\ fails => parsed
        /\ throwAt > 0 => stored
        /\ IF stored
           THEN InsertWhole(StampReceived(from_json(d.json), now), now,
                            throwAt)
           ELSE UNCHANGED <<storeVars, notified>>
        /\ sink' = IF reported THEN Append(sink, Report("UDP", TRUE))
                   ELSE sink
        /\ receive_pending' = TRUE
        /\ handled' = [n |-> handled.n + 1, datagram |-> d, now |-> now,
                       storage_error |-> (parsed /\ fails),
                       callback_error |-> threw]
        /\ UNCHANGED rpcVars
        /\ UNCHANGED <<mutex_, subscribers_, insertVars, histVars, lastOp,
                       codecVars, udp_running_, fileVars, tailVars>>

\* JSON objects of emitters: with and without an `id` and a `received_at`
\* of their own, and two with a value of the wrong type
UdpJson ==
    LET base == [EmptyJson EXCEPT
                    !.source = {JsonValue("string", "client")},
                    !.category = {JsonValue("string", "LogTemp")},
                    !.verbosity = {JsonValue("string", "Warning")},
                    !.message = {JsonValue("string", <<"player">>)},
                    !.timestamp = {JsonValue("number", 1)},
                    !.session_id = {JsonValue("string", "A")}]
    IN  {[base EXCEPT !.id = id, !.received_at = recv] :
            id \in {{}, {JsonValue("number", 9)}},
            recv \in {{}, {JsonValue("number", 9)}}}
        \cup {[base EXCEPT !.timestamp = {JsonValue("string", "now")}],
              [base EXCEPT !.id = {JsonValue("string", "9")}]}

\* a receive error, an empty datagram, truncated JSON, and JSON objects
Datagrams ==
    {Datagram(TRUE, 0, FALSE, EmptyJson),
     Datagram(FALSE, 0, FALSE, EmptyJson),
     Datagram(FALSE, 1, FALSE, EmptyJson)}
    \cup {Datagram(FALSE, 1, TRUE, j) : j \in UdpJson}

NextUdp ==
    \/ UdpStart
    \/ \E d \in Datagrams, now \in Clock, fails \in BOOLEAN,
          throwAt \in 0..MaxSubscribers :
          throwAt <= Len(subscribers_)
             /\ UdpHandleReceive(d, now, fails, throwAt)
    \/ Subscribe

SpecUdp == Init /\ [][NextUdp]_vars

\* C16: when handle_receive stores a record, the stored row and every
\* entry handed to a subscriber carry the id the store assigned and the
\* receive time of the receiver's clock, whatever `id` and `received_at`
\* the datagram wrote.
C16_EmitterIdAndReceiveTimeIgnored ==
    [][(handled'.n = handled.n + 1 /\ logs' # logs) =>
          LET assigned == AutoincrementRowid(logs, sqlite_sequence)
          IN  /\ \E row \in logs' :
                    /\ logs' = logs \cup {row}
                    /\ row \notin logs
                    /\ row.id = assigned
                    /\ row.received_at = handled'.now
              /\ \A c \in DOMAIN notified :
                    notified'[c] # notified[c] =>
                       /\ notified'[c][Len(notified'[c])].id = assigned
                       /\ notified'[c][Len(notified'[c])].received_at
                             = handled'.now]_vars

\* a datagram that wrote its own id and received_at was stored under the
\* store's id at the receiver's time, and a subscriber was told
C16_Witness ==
    /\ handled.n > 0
    /\ handled.datagram.json.id = {JsonValue("number", 9)}
    /\ handled.datagram.json.received_at = {JsonValue("number", 9)}
    /\ \E r \in logs : r.id = sqlite_sequence /\ r.received_at = handled.now
    /\ Len(notified[1]) > 0
    /\ notified[1][Len(notified[1])].id = sqlite_sequence

\* the datagram is one of those the claim lists as dropped
Dropped(h) ==
    \/ ~h.datagram.error /\ h.datagram.bytes_received = 0
    \/ ~h.datagram.error /\ h.datagram.bytes_received > 0
          /\ ~h.datagram.parses
    \/ ~h.datagram.error /\ h.datagram.bytes_received > 0
          /\ h.datagram.parses /\ from_json_throws(h.datagram.json)
    \/ h.storage_error

\* the datagram is well-formed and its insert raised no storage error
WellFormed(h) ==
    /\ ~h.datagram.error
    /\ h.datagram.bytes_received > 0
    /\ h.datagram.parses
    /\ ~from_json_throws(h.datagram.json)
    /\ ~h.storage_error

\* C17: handling an empty, unparseable or wrongly typed datagram, or one
\* whose insert raises a storage error, adds a report to the diagnostic
\* sink and leaves the store as it was; after every datagram the receive
\* is armed again, and a well-formed datagram is inserted whatever was
\* handled before it.
C17_BadDatagramReportedAndDropped ==
    [][handled'.n = handled.n + 1 =>
          /\ Dropped(handled') =>
                /\ logs' = logs
                /\ logs_fts' = logs_fts
                /\ Len(sink') = Len(sink) + 1
                /\ sink'[Len(sink')].is_error
          /\ receive_pending'
          /\ WellFormed(handled') =>
                Cardinality(logs') = Cardinality(logs) + 1]_vars

(***************************************************************************)
(* The tailed file and its writer.  A line is two data bytes and a         *)
(* newline; a byte remembers its line, its place in the line, and whether  *)
(* it was written while the tailer was running.                            *)
(***************************************************************************)
Byte(line, part, fresh) == [line |-> line, part |-> part, fresh |-> fresh]

Newline(fresh) == Byte(0, 0, fresh)

IsNewline(b) == b.part = 0

\* the last line of the file lacks its newline
OpenLine(content) ==
    content # <<>> /\ ~IsNewline(content[Len(content)])

\* the file is created (again)
FileCreate ==
    /\ ~file.exists
    /\ file' = [exists |-> TRUE, content |-> <<>>]
    /\ UNCHANGED <<lines_written, rotations>>
    /\ UNCHANGED rpcVars
    /\ UNCHANGED <<storeVars, mutex_, subscribers_, insertVars, notified,
                   histVars, lastOp, codecVars, sink, udpVars, tailVars>>

\* one append holds a whole line
WriteLine ==
    /\ file.exists
    /\ ~OpenLine(file.content)
    /\ lines_written < MaxLines
    /\ lines_written' = lines_written + 1
    /\ file' = [file EXCEPT !.content =
                   @ \o <<Byte(lines_written', 1, tail_running_),
                          Byte(lines_written', 2, tail_running_),
                          Newline(tail_running_)>>]
    /\ UNCHANGED rotations
    /\ UNCHANGED rpcVars
    /\ UNCHANGED <<storeVars, mutex_, subscribers_, insertVars, notified,
                   histVars, lastOp, codecVars, sink, udpVars, tailVars>>

\* one append holds the first part of a line, without its newline
WriteHead ==
    /\ file.exists
    /\ ~OpenLine(file.content)
    /\ lines_written < MaxLines
    /\ lines_written' = lines_written + 1
    /\ file' = [file EXCEPT !.content =
                   Append(@, Byte(lines_written', 1, tail_running_))]
    /\ UNCHANGED rotations
    /\ UNCHANGED rpcVars
    /\ UNCHANGED <<storeVars, mutex_, subscribers_, insertVars, notified,
                   histVars, lastOp, codecVars, sink, udpVars, tailVars>>

\* a later append holds the rest of that line and its newline
WriteTail ==
    /\ file.exists
    /\ OpenLine(file.content)
    /\ file' = [file EXCEPT !.content =
                   @ \o <<Byte(@[Len(@)].line, 2, tail_running_),
                          Newline(tail_running_)>>]
    /\ UNCHANGED <<lines_written, rotations>>
    /\ UNCHANGED rpcVars
    /\ UNCHANGED <<storeVars, mutex_, subscribers_, insertVars, notified,
                   histVars, lastOp, codecVars, sink, udpVars, tailVars>>

\* the file is truncated to length 0
FileTruncate ==
    /\ file.exists
    /\ file.content # <<>>
    /\ rotations < MaxRotations
    /\ rotations' = rotations + 1
    /\ file' = [file EXCEPT !.content = <<>>]
    /\ rotated' = (rotated \/ tail_running_)
    /\ UNCHANGED lines_written
    /\ UNCHANGED rpcVars
    /\ UNCHANGED <<storeVars, mutex_, subscribers_, insertVars, notified,
                   histVars, lastOp, codecVars, sink, udpVars,
                   tail_running_, last_pos_, current_size, tail_pc, pending>>

\* the file is deleted
FileDelete ==
    /\ file.exists
    /\ rotations < MaxRotations
    /\ rotations' = rotations + 1
    /\ file' = NoFile
    /\ rotated' = (rotated \/ tail_running_)
    /\ UNCHANGED lines_written
    /\ UNCHANGED rpcVars
    /\ UNCHANGED <<storeVars, mutex_, subscribers_, insertVars, notified,
                   histVars, lastOp, codecVars, sink, udpVars,
                   tail_running_, last_pos_, current_size, tail_pc, pending>>

(***************************************************************************)
(* FileTailer                                                              *)
(***************************************************************************)
\* (variant: start() leaves the read position at the beginning)
InitialPositionAtBeginning(size) == 0

\* start(): "last_pos_ = static_cast<std::streampos>(last_size_)"
InitialPosition(size) == size

\* the lines std::getline yields from a stream holding these bytes: the
\* bytes up to each newline, and at the end of the stream the bytes after
\* the last newline if there are any
RECURSIVE GetLines(_)
GetLines(bytes) ==
    IF bytes = <<>> THEN <<>>
    ELSE LET newlines == {i \in 1..Len(bytes) : IsNewline(bytes[i])}
         IN  IF newlines = {} THEN <<bytes>>
             ELSE LET i == MinOf(newlines)
                  IN  <<SubSeq(bytes, 1, i - 1)>>
                         \o GetLines(SubSeq(bytes, i + 1, Len(bytes)))

\* the entry monitor_loop builds for a line
TailEntry(line, now) ==
    LogEntry("file-tailer", "app.log", Log, line, now, now, "", "")

\* "last_pos_ = file.tellg(); if (last_pos_ == -1) last_pos_ = current_size":
\* the getline loop ends with failbit set, so tellg() returns -1
PositionAfterRead(size) == size

\* start(): report a missing file, else take the size as the position and
\* start the thread
TailStart ==
    /\ ~tail_running_
    /\ tail_pc = "stopped"
    /\ IF ~file.exists
       THEN /\ Len(SelectSeq(sink, LAMBDA r : r.is_error)) < MaxFailedStarts
            /\ sink' = Append(sink, Report("FileTailer", TRUE))
            /\ UNCHANGED tailVars
       ELSE /\ tail_running_' = TRUE
            /\ last_pos_' = InitialPosition(Len(file.content))
            /\ sink' = Append(sink, Report("FileTailer", FALSE))
            /\ tail_pc' = "sleep"
            /\ UNCHANGED <<current_size, pending, rotated>>
    /\ UNCHANGED rpcVars
    /\ UNCHANGED <<storeVars, mutex_, subscribers_, insertVars, notified,
                   histVars, lastOp, codecVars, udpVars, fileVars>>

\* monitor_loop after the sleep, the file exists: file_size, the rotation
\* test and the new-content test (while the file is missing the loop only
\* sleeps and changes nothing)
TailPollSize ==
    /\ tail_running_
    /\ tail_pc = "sleep"
    /\ file.exists
    /\ current_size' = Len(file.content)
    /\ LET reset == current_size' < last_pos_
       IN  /\ last_pos_' = IF reset THEN 0 ELSE last_pos_
           /\ sink' = IF reset THEN Append(sink, Report("FileTailer", FALSE))
                      ELSE sink
    /\ tail_pc' = IF current_size' > last_pos_' THEN "open" ELSE "sleep"
    /\ UNCHANGED <<tail_running_, pending, rotated>>
    /\ UNCHANGED rpcVars
    /\ UNCHANGED <<storeVars, mutex_, subscribers_, insertVars, notified,
                   histVars, lastOp, codecVars, udpVars, fileVars>>

\* "std::ifstream file(path_); file.seekg(last_pos_)": the stream holds the
\* bytes from last_pos_ to the end the file has now; a file that cannot be
\* opened ends the iteration
TailOpen ==
    /\ tail_pc = "open"
    /\ IF ~file.exists
       THEN /\ tail_pc' = "sleep"
            /\ UNCHANGED pending
       ELSE /\ tail_pc' = "getline"
            /\ pending' = GetLines(SubSeq(file.content, last_pos_ + 1,
                                          Len(file.content)))
    /\ UNCHANGED <<tail_running_, last_pos_, current_size, rotated>>
    /\ UNCHANGED rpcVars
    /\ UNCHANGED <<storeVars, mutex_, subscribers_, insertVars, notified,
                   histVars, lastOp, codecVars, sink, udpVars, fileVars>>

\* one turn of "while (std::getline(file, line) && running_)": an empty
\* line is skipped, any other line is inserted
TailGetline(now) ==
    /\ tail_pc = "getline"
    /\ pending # <<>>
    /\ pending' = Tail(pending)
    /\ IF Head(pending) = <<>>
       THEN UNCHANGED <<storeVars, notified>>
       ELSE InsertWhole(TailEntry(Head(pending), now), now, 0)
    /\ UNCHANGED <<tail_running_, last_pos_, current_size, tail_pc, rotated>>
    /\ UNCHANGED rpcVars
    /\ UNCHANGED <<mutex_, subscribers_, insertVars, histVars, lastOp,
                   codecVars, sink, udpVars, fileVars>>

\* getline fails at the end of the stream: the position is saved
TailEndOfFile ==
    /\ tail_pc = "getline"
    /\ pending = <<>>
    /\ last_pos_' = PositionAfterRead(current_size)
    /\ tail_pc' = "sleep"
    /\ UNCHANGED <<tail_running_, current_size, pending, rotated>>
    /\ UNCHANGED rpcVars
    /\ UNCHANGED <<storeVars, mutex_, subscribers_, insertVars, notified,
                   histVars, lastOp, codecVars, sink, udpVars, fileVars>>

NextTail ==
    \/ FileCreate
    \/ WriteLine
    \/ WriteHead
    \/ WriteTail
    \/ FileTruncate
    \/ FileDelete
    \/ TailStart
    \/ TailPollSize
    \/ TailOpen
    \/ \E now \in IngestClock : TailGetline(now)
    \/ TailEndOfFile

SpecTail == Init /\ [][NextTail]_vars

\* the message of the record of line k written while the tailer runs
WholeLine(k) == <<Byte(k, 1, TRUE), Byte(k, 2, TRUE)>>

\* the lines begun while the tailer runs, and those of them that are
\* complete in the file
LinesAfterStart ==
    {k \in 1..lines_written :
        \E i \in DOMAIN file.content : file.content[i] = Byte(k, 1, TRUE)}

CompleteLines ==
    {k \in 1..lines_written :
        \E i \in DOMAIN file.content : file.content[i] = Byte(k, 2, TRUE)}

\* the tailer sleeps after a poll that measured the size the file has now,
\* and its position is the end of the file: the next poll reads nothing
CaughtUp ==
    /\ tail_running_
    /\ tail_pc = "sleep"
    /\ file.exists
    /\ current_size = Len(file.content)
    /\ last_pos_ = Len(file.content)

\* C18: while the file is only appended to, every record that holds bytes
\* of a line begun after start holds the whole line, no such line has two
\* records, and once the tailer has caught up every complete such line has
\* a record.
C18_OneRecordPerAppendedLine ==
    (tail_running_ /\ ~rotated) =>
       /\ \A r \in logs : \A b \in Range(r.message) :
             b.line \in LinesAfterStart => r.message = WholeLine(b.line)
       /\ \A k \in LinesAfterStart :
             Cardinality({r \in logs : r.message = WholeLine(k)}) <= 1
       /\ CaughtUp =>
             \A k \in LinesAfterStart \cap CompleteLines :
                \E r \in logs : r.message = WholeLine(k)

\* C19: while the file is only appended to after start, no record holds a
\* byte that was in the file when start was called.
C19_PreexistingContentIgnored ==
    (tail_running_ /\ ~rotated) =>
       \A r \in logs : \A b \in Range(r.message) : b.fresh

\* the tailer was started on a file that held a line, has caught up with
\* the appends made since, and produced a record
C19_Witness ==
    /\ CaughtUp
    /\ ~rotated
    /\ \E i \in DOMAIN file.content : ~file.content[i].fresh
    /\ \E r \in logs : \A b \in Range(r.message) : b.fresh

\* C20: after the file was truncated or deleted and recreated, once the
\* tailer has caught up with the file every complete line of the new
\* content has a record.
C20_RereadAfterTruncation ==
    (CaughtUp /\ rotated) =>
       \A k \in CompleteLines : \E r \in logs : r.message = WholeLine(k)

(***************************************************************************)
(* SourceManager (src/src/source_manager.cpp, lines 5-67)                  *)
(*                                                                         *)
(* An id "file-N" is modelled as the pair <<"file-", N>> and the empty     *)
(* string add_file_tailer returns on failure as the empty sequence.        *)
(* tailers_ maps ids to the fields of the FileTailer that list_sources     *)
(* reads; the map is a set of pairs so that an id can be erased.           *)
(***************************************************************************)
\* "file-" + std::to_string(n)
SourceId(n) == <<"file-", n>>

\* return "" of add_file_tailer
NoSourceId == <<>>

\* what FileTailer::start() can meet: the file exists and can be measured,
\* it does not exist, or it exists and file_size throws
StartCases == {"ok", "not_found", "stat_failed"}

\* is_running() after FileTailer::start()
IsRunningAfterStart(start) == start = "ok"

\* FileTailer(store, path, name): source_name_ defaults to the filename
FileTailer(path, name, running) ==
    [path |-> path, source_name |-> IF name = "" THEN path ELSE name,
     running |-> running]

\* tailers_.find(id) != tailers_.end()
Found(reg, id) == \E t \in reg : t[1] = id

\* (variant: the failed tailer is registered too)
RegisterAlways(reg, id, tailer, started) ==
    {t \in reg : t[1] # id} \cup {<<id, tailer>>}

\* "if (!tailer->is_running()) return ""; tailers_[id] = std::move(tailer)"
Register(reg, id, tailer, started) ==
    IF started THEN {t \in reg : t[1] # id} \cup {<<id, tailer>>} ELSE reg

\* tailers_.erase(it)
Erase(reg, id) == {t \in reg : t[1] # id}

\* (variant: the counter is advanced only when the tailer started)
PostIncrementOnSuccess(n, started) == IF started THEN n + 1 ELSE n

\* next_id_++
PostIncrement(n, started) == n + 1

\* list_sources(): one SourceInfo per entry of tailers_
list_sources(reg) ==
    {[id |-> t[1], type |-> "file-tailer", name |-> t[2].source_name,
      path |-> t[2].path, running |-> t[2].running] : t \in reg}

SourceOp(op, path, id, start, result) ==
    [op |-> op, path |-> path, id |-> id, start |-> start, result |-> result]

\* add_file_tailer(path, name); start is what FileTailer::start() meets
AddFileTailer(path, name, start) ==
    LET id == SourceId(next_id_)
        started == IsRunningAfterStart(start)
        result == IF started THEN id ELSE NoSourceId
    IN  /\ Len(issued) < MaxAdds
        /\ next_id_' = PostIncrement(next_id_, started)
        /\ tailers_' = Register(tailers_, id,
                                FileTailer(path, name, started), started)
        /\ sink' = Append(sink, Report("FileTailer", ~started))
        /\ source_op' = SourceOp("add", path, id, start, result)
        /\ issued' = Append(issued, result)
        /\ live' = IF result # NoSourceId THEN live \cup {result} ELSE live
        /\ UNCHANGED <<rpc, httpVars>>
        /\ UNCHANGED <<storeVars, mutex_, subscribers_, insertVars, notified,
                       histVars, lastOp, codecVars, udpVars, fileVars,
                       tailVars>>

\* remove_source(id)
RemoveSource(id) ==
    LET found == Found(tailers_, id)
    IN  /\ tailers_' = IF found THEN Erase(tailers_, id) ELSE tailers_
        /\ sink' = IF found THEN Append(sink, Report("FileTailer", FALSE))
                   ELSE sink
        /\ source_op' = SourceOp("remove", "", id, "", found)
        /\ live' = IF found THEN live \ {id} ELSE live
        /\ UNCHANGED <<next_id_, issued, rpc, httpVars>>
        /\ UNCHANGED <<storeVars, mutex_, subscribers_, insertVars, notified,
                       histVars, lastOp, codecVars, udpVars, fileVars,
                       tailVars>>

\* list_sources()
ListSources ==
    /\ source_op' = SourceOp("list", "", <<>>, "", list_sources(tailers_))
    /\ UNCHANGED <<tailers_, next_id_, issued, live, rpc, httpVars>>
    /\ UNCHANGED <<storeVars, mutex_, subscribers_, insertVars, notified,
                   histVars, lastOp, ingestVars>>

\* stop_all(): every tailer is stopped and the map cleared
StopAll ==
    /\ tailers_' = {}
    /\ sink' = sink \o [k \in 1..Cardinality(tailers_) |->
                            Report("FileTailer", FALSE)]
    /\ source_op' = SourceOp("stop_all", "", <<>>, "", <<>>)
    /\ live' = {}
    /\ UNCHANGED <<next_id_, issued, rpc, httpVars>>
    /\ UNCHANGED <<storeVars, mutex_, subscribers_, insertVars, notified,
                   histVars, lastOp, codecVars, udpVars, fileVars, tailVars>>

SourcePaths == {"a.log", "b.log"}
SourceNames == {"", "game"}

NextSources ==
    \/ \E path \in SourcePaths, name \in SourceNames, start \in StartCases :
          AddFileTailer(path, name, start)
    \/ \E n \in 1..(MaxAdds + 1) : RemoveSource(SourceId(n))
    \/ ListSources
    \/ StopAll

SpecSources == Init /\ [][NextSources]_vars


\* the ids of the descriptors list_sources() returns
ListedIds == {d.id : d \in list_sources(tailers_)}

\* C21: after every add_file_tailer, remove_source and stop_all,
\* list_sources() holds exactly one descriptor for each id a successful add
\* returned and that was not removed or stopped since; an add whose file
\* does not exist returns "" and leaves the list as it was; a remove of an
\* id that is not listed returns false and leaves the list as it was.
C21_ListIsIssuedNotRemoved ==
    [][/\ ListedIds' = live'
       /\ Cardinality(list_sources(tailers_')) = Cardinality(live')
       /\ (source_op'.op = "add" /\ source_op'.start = "not_found")
             => /\ source_op'.result = NoSourceId
                /\ list_sources(tailers_') = list_sources(tailers_)
       /\ (source_op'.op = "remove" /\ source_op'.id \notin live)
             => /\ source_op'.result = FALSE
                /\ list_sources(tailers_') = list_sources(tailers_)
       /\ source_op'.op = "list" => source_op'.result = list_sources(tailers_)
      ]_vars

\* a source was added, removed, removed once more without effect, while
\* another source is still listed and an add has failed
C21_Witness ==
    /\ source_op.op = "remove"
    /\ source_op.result = FALSE
    /\ source_op.id \in Range(issued)
    /\ live # {}
    /\ NoSourceId \in Range(issued)

\* the ids issued so far, in the order of their issue
IssuedIds == SelectSeq(issued, LAMBDA r : r # NoSourceId)

\* C22 (as stated): every id issued has the form file-N, the first id
\* issued is file-1, and each id issued later has a larger N than every
\* id issued before, so that no id is issued twice.
C22_FirstIdIsFileOne ==
    /\ \A k \in DOMAIN IssuedIds :
          IssuedIds[k][1] = "file-" /\ IssuedIds[k][2] \in Nat
    /\ IssuedIds # <<>> => IssuedIds[1] = SourceId(1)
    /\ \A j, k \in DOMAIN IssuedIds :
          j < k => IssuedIds[j][2] < IssuedIds[k][2]

\* C22 (amended): every id issued has the form file-N where N counts the
\* add calls made so far, the failed ones included: the k-th add returns
\* file-k or fails, so that each id issued later has a larger N than every
\* id issued before, no id is issued twice, and the first id issued is
\* file-1 only when the first add succeeds.
C22_IdCountsEveryAdd ==
    /\ \A k \in DOMAIN issued :
          issued[k] = NoSourceId \/ issued[k] = SourceId(k)
    /\ \A j, k \in DOMAIN IssuedIds :
          j < k => IssuedIds[j][2] < IssuedIds[k][2]
    /\ \A id \in Range(IssuedIds) :
          Cardinality({k \in DOMAIN issued : issued[k] = id}) = 1

\* a failed add, then two ids issued, the first of them removed again
C22_Witness ==
    /\ Len(issued) = 3
    /\ issued[1] = NoSourceId
    /\ Len(IssuedIds) = 2
    /\ IssuedIds[1] \notin live
    /\ IssuedIds[2] \in live


(***************************************************************************)
(* McpServer: the RPC dispatcher (src/src/source_manager.cpp, 591-1218)    *)
(*                                                                         *)
(* A JSON value is JsonValue(type, value); the value of an object is a     *)
(* record that maps each key the dispatcher reads to the set of its values *)
(* ({}: the key is absent).  A function of the dispatcher is an operator   *)
(* that yields the set of the ways it can end (Ended), one for each order  *)
(* the SQL engine may pick for rows of equal emit time.                    *)
(***************************************************************************)
JsonObject(fields) == JsonValue("object", fields)

\* the text std::exception::what() returns, per throw site
TypeError302 == "type_error.302"
TypeError306 == "type_error.306"
TypeError316 == "type_error.316"

\* a word that holds a byte sequence that is not UTF-8 (a line of a tailed
\* file is stored as its bytes)
InvalidUtf8 == "\\xE9"

\* basic_json::value(key, default) throws: type_error.306 when called on a
\* value that is no object, and type_error.302 from get<ValueType>() when
\* the key is there with a value of another type ("any": ValueType is
\* basic_json, which every value converts to)
ValueThrows(j, key, type) ==
    \/ j.type # "object"
    \/ \E v \in j.value[key] : type # "any" /\ v.type # type

ValueWhat(j) == IF j.type # "object" THEN TypeError306 ELSE TypeError302

\* basic_json::value(key, default) when it does not throw
Value(j, key, default) ==
    IF j.value[key] = {} THEN default ELSE CHOOSE v \in j.value[key] : TRUE

\* "if (args.contains(key)) x = args[key].get<T>()" throws: contains() is
\* false on a value that is no object
ArgThrows(args, key, type) ==
    /\ args.type = "object"
    /\ \E v \in args.value[key] : v.type # type

\* "if (args.contains(key)) x = args[key].get<T>()": the optional x
Arg(args, key) ==
    IF args.type = "object" THEN {v.value : v \in args.value[key]} ELSE {}

\* basic_json::dump throws type_error.316 on a string that is not UTF-8
DumpThrows(rows) ==
    \E i \in DOMAIN rows : InvalidUtf8 \in Range(rows[i].message)

\* (variant: the error envelope does not carry the id)
error_response_without_id(id, code, message) ==
    JsonObject([jsonrpc |-> "2.0", id |-> Null,
                error |-> [code |-> code, message |-> message]])

error_response(id, code, message) ==
    JsonObject([jsonrpc |-> "2.0", id |-> id,
                error |-> [code |-> code, message |-> message]])

success_response(id, result) ==
    JsonObject([jsonrpc |-> "2.0", id |-> id, result |-> result])

\* the members of the objects the dispatcher reads, and `path` and `id`
\* that a call of a source tool carries, all absent
NoParams == [name |-> {}, arguments |-> {}, uri |-> {}]
NoArguments ==
    [query |-> {}, source |-> {}, before |-> {}, count |-> {}, limit |-> {},
     path |-> {}, id |-> {}]

ToolNames ==
    {"query_logs", "search_logs", "get_stats", "get_categories",
     "clear_logs", "tail_logs", "get_sessions"}

\* "// Source management tools": tool_add_file_source, tool_remove_source
\* and tool_list_sources are declared in the class; handle_tools_call has
\* no branch for their names
SourceToolNames == {"add_file_source", "remove_source", "list_sources"}

ResourceUris ==
    {"logs://recent", "logs://stats", "logs://errors",
     "logs://current-session"}

Methods ==
    {"initialize", "notifications/initialized", "tools/list", "tools/call",
     "resources/list", "resources/read", "ping"}

\* a function returned without a call on the store
Plain(value) == Ended("returned", value, <<>>, NoOp, {})

\* a function threw before any call on the store
Threw(what) == Ended("threw", what, <<>>, NoOp, {})

\* "for (const auto& log : logs) result.push_back(log.to_json())"
LogsJson(res) == JsonValue("array", [i \in DOMAIN res |-> to_json(res[i])])

\* store_.query(filter) inside a tool or resource: the prepare may fail
StoreQuery(f, fails) ==
    IF fails THEN {Threw("Failed to prepare query")}
    ELSE {Ended("returned", LimitOffset(s, f.limit, f.offset),
                LimitOffset(s, f.limit, f.offset),
                ReadOp("query", "", f, {}, LimitOffset(s, f.limit, f.offset)),
                {}) :
             s \in OrderByTimestampDesc({r \in logs : QueryWhere(r, f)})}

\* store_.search(query, filter) inside tool_search_logs
StoreSearch(q, f, fails) ==
    IF fails THEN {Threw("Failed to prepare search")}
    ELSE {Ended("returned", LimitOffset(s, f.limit, f.offset),
                LimitOffset(s, f.limit, f.offset),
                ReadOp("search", q, f, {}, LimitOffset(s, f.limit, f.offset)),
                {}) :
             s \in OrderByTimestampDesc(
                      {r \in FtsMatch(logs, logs_fts, q) : SearchWhere(r, f)})}

\* the LogFilter a tool fills from its arguments
ArgsFilter(args, limit) ==
    [DefaultFilter EXCEPT !.source = Arg(args, "source"), !.limit = limit]

tool_query_logs(args, fails) ==
    IF ArgThrows(args, "source", "string") \/ ArgThrows(args, "limit", "number")
    THEN {Threw(TypeError302)}
    ELSE LET limit == IF Arg(args, "limit") = {} THEN DefaultLimit
                      ELSE CHOOSE n \in Arg(args, "limit") : TRUE
         IN  {IF e.kind = "threw" THEN e
              ELSE [e EXCEPT !.value =
                       JsonObject([count |-> Len(e.rows),
                                   logs |-> LogsJson(e.rows)])] :
                 e \in StoreQuery(ArgsFilter(args, limit), fails)}

tool_search_logs(args, fails) ==
    IF ValueThrows(args, "query", "string") THEN {Threw(ValueWhat(args))}
    ELSE LET query == Value(args, "query", JsonValue("string", "")).value
         IN  IF query = ""
             THEN {Threw("Query parameter is required")}
             ELSE IF ArgThrows(args, "source", "string")
                     \/ ArgThrows(args, "limit", "number")
             THEN {Threw(TypeError302)}
             ELSE LET limit == IF Arg(args, "limit") = {} THEN DefaultLimit
                               ELSE CHOOSE n \in Arg(args, "limit") : TRUE
                  IN  {IF e.kind = "threw" THEN e
                       ELSE [e EXCEPT !.value =
                                JsonObject([count |-> Len(e.rows),
                                            query |-> query,
                                            logs |-> LogsJson(e.rows)])] :
                          e \in StoreSearch(query, ArgsFilter(args, limit),
                                            fails)}

tool_get_stats(args) ==
    IF ArgThrows(args, "source", "string") THEN {Threw(TypeError302)}
    ELSE {Ended("returned", JsonObject(stats), <<>>,
                StatsOp(Arg(args, "source"), {}, stats), {}) :
             stats \in {LogStats({r \in logs :
                                     StatsWhere(r, Arg(args, "source"), {})},
                                 current) :
                           current \in IF LatestSessionSubquery = {}
                                       THEN {""}
                                       ELSE LatestSessionSubquery}}

\* get_categories: "SELECT DISTINCT category FROM logs [WHERE source = ?]
\* ORDER BY category"
tool_get_categories(args) ==
    IF ArgThrows(args, "source", "string") THEN {Threw(TypeError302)}
    ELSE LET categories ==
                 {r.category : r \in SourceWhere(logs, Arg(args, "source"))}
         IN  {Ended("returned", JsonObject([categories |-> categories]),
                    <<>>,
                    ReadOp("get_categories", "", DefaultFilter,
                           Arg(args, "source"), <<categories>>), {})}

tool_clear_logs(args) ==
    IF ArgThrows(args, "source", "string")
          \/ ArgThrows(args, "before", "number")
    THEN {Threw(TypeError302)}
    ELSE LET source == Arg(args, "source")
             before == Arg(args, "before")
             deleted == {r \in logs : ClearWhere(r, source, before)}
         IN  {Ended("returned",
                    JsonObject([deleted |-> Cardinality(deleted)]), <<>>,
                    ClearOp(source, before, Cardinality(deleted)), deleted)}

tool_tail_logs(args, fails) ==
    IF ValueThrows(args, "count", "number") THEN {Threw(ValueWhat(args))}
    ELSE IF ArgThrows(args, "source", "string") THEN {Threw(TypeError302)}
    ELSE LET count == Value(args, "count", JsonValue("number", 50)).value
         IN  {IF e.kind = "threw" THEN e
              ELSE [e EXCEPT !.value =
                       JsonObject([count |-> Len(e.rows),
                                   logs |-> LogsJson(e.rows)])] :
                 e \in StoreQuery(ArgsFilter(args, count), fails)}

tool_get_sessions(args, fails) ==
    IF ValueThrows(args, "limit", "number") THEN {Threw(ValueWhat(args))}
    ELSE IF ArgThrows(args, "source", "string") THEN {Threw(TypeError302)}
    ELSE IF fails THEN {Threw("Failed to prepare get_sessions")}
    ELSE LET limit == Value(args, "limit", JsonValue("number", 20)).value
             source == Arg(args, "source")
             rows == SourceWhere(logs, source)
             instances(order) ==
                 {inst \in [1..Len(order) ->
                               UNION {DistinctInstances(rows, order[i]) :
                                         i \in 1..Len(order)}] :
                     \A i \in 1..Len(order) :
                        inst[i] \in DistinctInstances(rows, order[i])}
             summaries ==
                 UNION {{[i \in 1..Len(order) |->
                             SessionInfo(rows, order[i], inst[i])] :
                           inst \in instances(order)} :
                        order \in SessionRows(rows)}
         IN  {Ended("returned",
                    JsonObject([count |-> Min(Len(s), limit),
                                sessions |-> SubSeq(s, 1, Min(Len(s), limit))]),
                    <<>>,
                    ReadOp("get_sessions", "", DefaultFilter, source, s),
                    {}) : s \in summaries}

\* (variant: isError stays false)
CallToolResultNeverError(text, is_error) ==
    JsonObject([content |-> <<[type |-> "text", text |-> text]>>,
                isError |-> FALSE])

\* "return {{"content", content}, {"isError", is_error}}" where the one
\* content item holds result.dump(2)
CallToolResult(text, is_error) ==
    JsonObject([content |-> <<[type |-> "text", text |-> text]>>,
                isError |-> is_error])

handle_tools_call(params, fails) ==
    IF ValueThrows(params, "name", "string") THEN {Threw(ValueWhat(params))}
    ELSE
    LET name == Value(params, "name", JsonValue("string", "")).value
        args == Value(params, "arguments", JsonObject(NoArguments))
        tool ==
            CASE name = "query_logs" -> tool_query_logs(args, fails)
              [] name = "search_logs" -> tool_search_logs(args, fails)
              [] name = "get_stats" -> tool_get_stats(args)
              [] name = "get_categories" -> tool_get_categories(args)
              [] name = "clear_logs" -> tool_clear_logs(args)
              [] name = "tail_logs" -> tool_tail_logs(args, fails)
              [] name = "get_sessions" -> tool_get_sessions(args, fails)
              [] OTHER -> {}
        finish(e) ==
            IF e.kind = "threw"
            THEN [e EXCEPT !.kind = "returned",
                           !.value = CallToolResult(<<"Error: ", e.value>>,
                                                    TRUE)]
            ELSE IF DumpThrows(e.rows)
            THEN [e EXCEPT !.kind = "threw", !.value = TypeError316]
            ELSE [e EXCEPT !.value = CallToolResult(e.value, FALSE)]
    IN  IF name \notin ToolNames
        THEN {Plain(CallToolResult(<<"Unknown tool: ", name>>, TRUE))}
        ELSE {finish(e) : e \in tool}

\* "return {{"session_id", session_id}, {"count", logs.size()},
\* {"logs", logs_json}}" for the rows of the query e and the session id sid
CurrentSession(e, sid) ==
    [e EXCEPT !.value =
        JsonObject([session_id |-> sid, count |-> Len(e.rows),
                    logs |-> LogsJson(e.rows)])]

\* resource_current_session: query with the default filter, then
\* get_latest_session()
resource_current_session(fails) ==
    {IF e.kind = "threw" THEN e ELSE CurrentSession(e, sid) :
        e \in StoreQuery(DefaultFilter, fails),
        sid \in LatestSessionResult({})}

\* handle_resources_read after the resource function: the contents item
\* holds the dump of what the function returned
ReadContents(uri, e) ==
    IF e.kind = "threw" THEN e
    ELSE IF DumpThrows(e.rows)
    THEN [e EXCEPT !.kind = "threw", !.value = TypeError316]
    ELSE [e EXCEPT !.value =
                      JsonObject([contents |->
                          <<[uri |-> uri,
                             mimeType |-> "application/json",
                             text |-> e.value]>>])]

handle_resources_read(params, fails) ==
    IF ValueThrows(params, "uri", "string") THEN {Threw(ValueWhat(params))}
    ELSE
    LET uri == Value(params, "uri", JsonValue("string", "")).value
        resource ==
            CASE uri = "logs://recent" ->
                    {IF e.kind = "threw" THEN e
                     ELSE [e EXCEPT !.value = LogsJson(e.rows)] :
                        e \in StoreQuery(DefaultFilter, fails)}
              [] uri = "logs://stats" ->
                    tool_get_stats(JsonObject(NoArguments))
              [] uri = "logs://errors" ->
                    {IF e.kind = "threw" THEN e
                     ELSE [e EXCEPT !.value = LogsJson(e.rows)] :
                        e \in StoreQuery(
                                 [DefaultFilter EXCEPT
                                     !.min_verbosity = {Error}], fails)}
              [] uri = "logs://current-session" ->
                    resource_current_session(fails)
              [] OTHER -> {Threw(<<"Unknown resource: ", uri>>)}
    IN  {ReadContents(uri, e) : e \in resource}

handle_initialize == JsonObject([protocolVersion |-> "2024-11-05"])
handle_tools_list == JsonObject([tools |-> ToolNames])
handle_resources_list == JsonObject([resources |-> ResourceUris])

\* the catch block of handle_request:
\* "return error_response(request.value("id", nullptr), -32603, e.what())";
\* value<std::nullptr_t> throws type_error.306 on a request that is no
\* object and type_error.302 from get<std::nullptr_t>() on an id that is
\* not null
Caught(request, e) ==
    IF request.type # "object"
    THEN [e EXCEPT !.kind = "threw", !.value = TypeError306]
    ELSE IF \E v \in request.value.id : v.type # "null"
    THEN [e EXCEPT !.kind = "threw", !.value = TypeError302]
    ELSE [e EXCEPT !.kind = "returned",
                   !.value = error_response(Null, -32603, e.value)]

\* handle_request after the handler of the method: the result goes into a
\* success envelope, an exception into the catch block
Answer(request, e) ==
    IF e.kind = "threw" THEN Caught(request, e)
    ELSE [e EXCEPT !.value =
                      success_response(Value(request, "id", Null), e.value)]

handle_request(request, fails) ==
    IF ValueThrows(request, "method", "string")
    THEN {Caught(request, Threw(ValueWhat(request)))}
    ELSE
    LET method == Value(request, "method", JsonValue("string", "")).value
        id == Value(request, "id", Null)
        params == Value(request, "params", JsonObject(NoParams))
        answer(e) == Answer(request, e)
    IN  CASE method = "initialize" ->
                {Plain(success_response(id, handle_initialize))}
          [] method = "notifications/initialized" -> {Plain(Null)}
          [] method = "tools/list" ->
                {Plain(success_response(id, handle_tools_list))}
          [] method = "tools/call" ->
                {answer(e) : e \in handle_tools_call(params, fails)}
          [] method = "resources/list" ->
                {Plain(success_response(id, handle_resources_list))}
          [] method = "resources/read" ->
                {answer(e) : e \in handle_resources_read(params, fails)}
          [] method = "ping" ->
                {Plain(success_response(id, JsonObject(<<>>)))}
          [] OTHER ->
                {Plain(error_response(id, -32601,
                                      <<"Method not found: ", method>>))}

\* what a call the dispatcher made on the store leaves behind
StoreAfter(e) ==
    /\ logs' = logs \ e.deleted
    /\ logs_fts' = TriggerAfterDelete(logs_fts, e.deleted)
    /\ latest_row' \in (IF e.deleted = {} THEN {latest_row}
                        ELSE LatestRowChoices(logs'))
    /\ lastOp' = e.op
    /\ live_returned' = IF e.op.op = "clear" THEN {} ELSE live_returned
    /\ UNCHANGED <<sqlite_sequence, completed, reused_after_empty>>

\* one call of handle_request by a caller that is the only thread inside
\* the dispatcher and the store
HandleRequest(request, fails) ==
    /\ rpc = NoRpc
    /\ lock_guard
    /\ \E e \in handle_request(request, fails) :
          /\ fails => e.op = NoOp
          /\ rpc' = [request |-> request, end |-> e]
          /\ StoreAfter(e)
    /\ UNCHANGED <<mutex_, subscribers_, insertVars, notified, ingestVars,
                   srcVars, httpVars>>

\* the caller is done with the value handle_request returned
RpcDone ==
    /\ rpc # NoRpc
    /\ rpc' = NoRpc
    /\ lastOp' = NoOp
    /\ UNCHANGED <<storeVars, mutex_, subscribers_, insertVars, notified,
                   histVars, ingestVars, srcVars, httpVars>>

\* a record arrives through an ingest source while no request is handled
RpcInsert(e, now) ==
    /\ rpc = NoRpc
    /\ sqlite_sequence < MaxRecords
    /\ InsertWhole(e, now, 0)
    /\ UNCHANGED <<mutex_, subscribers_, insertVars, histVars, lastOp,
                   ingestVars, rpcVars>>

\* a read of logs://current-session by a caller that runs beside the
\* ingest workers, first half: resource_current_session calls
\* store_.query(filter), which takes and releases mutex_
CurrentSessionQuery(request) ==
    /\ rpc = NoRpc
    /\ lock_guard
    /\ \E e \in StoreQuery(DefaultFilter, FALSE) :
          /\ rpc' = [request |-> request, end |-> [e EXCEPT !.kind = "queried"]]
          /\ StoreAfter(e)
    /\ UNCHANGED <<mutex_, subscribers_, insertVars, notified, ingestVars,
                   srcVars, httpVars>>

\* an ingest worker inserts a record between the two calls on the store
CurrentSessionInsert(e, now) ==
    /\ rpc.end.kind = "queried"
    /\ sqlite_sequence < MaxRecords
    /\ InsertWhole(e, now, 0)
    /\ UNCHANGED <<mutex_, subscribers_, insertVars, histVars, lastOp,
                   ingestVars, rpcVars>>

\* second half: store_.get_latest_session() under mutex_, then the result
\* is built, dumped into the contents item and put into the envelope
CurrentSessionLatest ==
    /\ rpc.end.kind = "queried"
    /\ lock_guard
    /\ \E sid \in LatestSessionResult({}) :
          /\ rpc' = [rpc EXCEPT
                        !.end = Answer(rpc.request,
                                   ReadContents("logs://current-session",
                                      CurrentSession(
                                         [rpc.end EXCEPT !.kind = "returned"],
                                         sid)))]
          /\ lastOp' = ReadOp("get_latest_session", "", DefaultFilter, {},
                              <<sid>>)
    /\ UNCHANGED <<storeVars, mutex_, subscribers_, insertVars, notified,
                   histVars, ingestVars, srcVars, httpVars>>

(***************************************************************************)
(* Requests                                                                *)
(***************************************************************************)
Request(id, method, params) ==
    JsonObject([id |-> id, method |-> method, params |-> params])

\* no id (a notification), a null id and a number
RequestIds == {{}, {Null}, {JsonValue("number", 1)}}

\* arguments of a tool: none, right ones, and ones of a wrong type
ToolArguments ==
    {JsonObject(NoArguments),
     JsonObject([NoArguments EXCEPT !.query = {JsonValue("string", "player")}]),
     JsonObject([NoArguments EXCEPT !.query = {JsonValue("string", "")}]),
     JsonObject([NoArguments EXCEPT !.query = {JsonValue("number", 5)}]),
     JsonObject([NoArguments EXCEPT
                    !.query = {JsonValue("string", "player")},
                    !.source = {JsonValue("string", "client")}]),
     JsonObject([NoArguments EXCEPT !.source = {JsonValue("number", 5)}]),
     JsonObject([NoArguments EXCEPT !.before = {JsonValue("number", 2)}]),
     JsonObject([NoArguments EXCEPT !.count = {JsonValue("number", 1)},
                                    !.limit = {JsonValue("number", 1)}]),
     JsonObject([NoArguments EXCEPT !.count = {JsonValue("string", "1")},
                                    !.limit = {JsonValue("string", "1")}]),
     JsonObject([NoArguments EXCEPT
                    !.path = {JsonValue("string", "/logs/app.log")},
                    !.id = {JsonValue("string", "file-1")}]),
     JsonValue("array", <<>>)}

ToolParams ==
    {JsonObject([NoParams EXCEPT !.name = {JsonValue("string", n)},
                                 !.arguments = a]) :
        n \in ToolNames \cup SourceToolNames,
        a \in {{}} \cup {{x} : x \in ToolArguments}}
    \cup {JsonObject(NoParams),
          JsonObject([NoParams EXCEPT !.name = {JsonValue("number", 5)}]),
          JsonValue("array", <<>>)}

ResourceParams ==
    {JsonObject([NoParams EXCEPT !.uri = {JsonValue("string", u)}]) :
        u \in ResourceUris \cup {"logs://nope"}}
    \cup {JsonObject(NoParams),
          JsonObject([NoParams EXCEPT !.uri = {JsonValue("number", 5)}]),
          JsonValue("array", <<>>)}

Requests ==
    {Request(id, {JsonValue("string", mth)}, {}) :
        id \in RequestIds,
        mth \in (Methods \ {"tools/call", "resources/read"})
                   \cup {"notifications/cancelled", "logs/clear"}}
    \cup {Request(id, mth, {}) :
             id \in RequestIds, mth \in {{}, {JsonValue("number", 7)}}}
    \cup {Request(id, {JsonValue("string", "tools/call")}, params) :
             id \in RequestIds,
             params \in {{}} \cup {{x} : x \in ToolParams}}
    \cup {Request(id, {JsonValue("string", "resources/read")}, params) :
             id \in RequestIds,
             params \in {{}} \cup {{x} : x \in ResourceParams}}
    \cup {JsonValue("array", <<>>)}

\* records of a client, of a server, and a line of a tailed file whose
\* bytes are not UTF-8
DispatchEntries ==
    {LogEntry("client", "LogTemp", Error, <<"player", "spawned">>, 1, 0,
              "A", "i1"),
     LogEntry("server", "LogNet", Log, <<"player">>, 2, 0, "A", "i2"),
     LogEntry("file-tailer", "app.log", Log, <<InvalidUtf8>>, 2, 2, "", "")}

NextDispatch ==
    \/ \E e \in DispatchEntries, now \in Clock : RpcInsert(e, now)
    \/ \E request \in Requests, fails \in BOOLEAN :
          HandleRequest(request, fails)
    \/ RpcDone

SpecDispatch == Init /\ [][NextDispatch]_vars


\* the request handled last is an object whose method is a string or absent
EnvelopeShaped ==
    /\ rpc # NoRpc
    /\ rpc.request.type = "object"
    /\ \A v \in rpc.request.value.method : v.type = "string"

\* the method of the request handled last ("" when it names none)
RpcMethod == Value(rpc.request, "method", JsonValue("string", "")).value

\* the id of the request handled last (null when it has none)
RpcId == Value(rpc.request, "id", Null)

\* the value handle_request returned is a response envelope
IsEnvelope(v) == v.type = "object" /\ "jsonrpc" \in DOMAIN v.value
IsSuccess(v) == IsEnvelope(v) /\ "result" \in DOMAIN v.value
IsError(v) == IsEnvelope(v) /\ "error" \in DOMAIN v.value

\* C27: for every request without an `id` member, whatever its method,
\* handle_request returns the empty value and no response envelope.
C27_NotificationGetsNoEnvelope ==
    (EnvelopeShaped /\ rpc.request.value.id = {})
        => rpc.end.kind = "returned" /\ rpc.end.value = Null


\* C28: a request whose method is none of the seven the dispatcher knows is
\* answered by an error envelope with code -32601 and the message
\* "Method not found: <method>"; and every envelope handle_request returns,
\* success or error, carries the id of the request (null when the request
\* has none).
C28_MethodNotFoundAndIdEchoed ==
    /\ (EnvelopeShaped /\ RpcMethod \notin Methods)
          => /\ rpc.end.kind = "returned"
             /\ IsError(rpc.end.value)
             /\ rpc.end.value.value.error.code = -32601
             /\ rpc.end.value.value.error.message
                   = <<"Method not found: ", RpcMethod>>
    /\ (rpc # NoRpc /\ rpc.end.kind = "returned" /\ IsEnvelope(rpc.end.value))
          => rpc.end.value.value.id = RpcId

\* a request with id 1 and the unknown method logs/clear was answered
C28_Witness ==
    /\ EnvelopeShaped
    /\ RpcMethod = "logs/clear"
    /\ RpcId = JsonValue("number", 1)
    /\ IsError(rpc.end.value)
    /\ logs # {}

\* the request handled last is a tools/call whose params are an object and
\* whose tool name is a string or absent
IsToolsCall ==
    /\ EnvelopeShaped
    /\ RpcMethod = "tools/call"
    /\ \A p \in rpc.request.value.params :
          p.type = "object" /\ \A n \in p.value.name : n.type = "string"

RpcParams == Value(rpc.request, "params", JsonObject(NoParams))
ToolName == Value(RpcParams, "name", JsonValue("string", "")).value
ToolArgs == Value(RpcParams, "arguments", JsonObject(NoArguments))

\* the tool was not found or raised: it made no call on the store that
\* returned
ToolFailed == ToolName \notin ToolNames \/ rpc.end.op = NoOp

\* search_logs was called without a query or with an empty one
QueryMissing ==
    /\ ToolName = "search_logs"
    /\ ToolArgs.type = "object"
    /\ ToolArgs.value.query \subseteq {JsonValue("string", "")}

\* C29: a tools/call that names an unknown tool, or whose tool raises, is
\* answered by a success envelope whose result has isError = true and a
\* text that tells why, never by an error envelope; search_logs without a
\* query or with an empty one makes no call on the store; and in every
\* result of a tools/call isError is false exactly when the tool ran to
\* completion.
C29_ToolFailureIsResultWithIsError ==
    IsToolsCall =>
        /\ ToolFailed
              => /\ rpc.end.kind = "returned"
                 /\ IsSuccess(rpc.end.value)
                 /\ rpc.end.value.value.result.value.isError = TRUE
                 /\ rpc.end.value.value.result.value.content[1].text[1]
                       \in {"Unknown tool: ", "Error: "}
        /\ QueryMissing => rpc.end.op = NoOp /\ lastOp = NoOp
        /\ (rpc.end.kind = "returned" /\ IsSuccess(rpc.end.value))
              => (rpc.end.value.value.result.value.isError = FALSE
                     <=> ~ToolFailed)

\* search_logs was called with an empty query on a store that holds a
\* record
C29_Witness ==
    /\ IsToolsCall
    /\ QueryMissing
    /\ ToolArgs.value.query # {}
    /\ logs # {}
    /\ IsSuccess(rpc.end.value)
    /\ rpc.end.value.value.result.value.isError = TRUE

\* C31: a tools/call that names add_file_source, remove_source or
\* list_sources is not answered as an unknown tool: its result has
\* isError = false when the call carries the path of a file (the id of a
\* source), and its text never is "Unknown tool: <name>".
C31_SourceToolsAreDispatched ==
    (IsToolsCall /\ ToolName \in SourceToolNames)
        => /\ rpc.end.kind = "returned"
           /\ IsSuccess(rpc.end.value)
           /\ rpc.end.value.value.result.value.content[1].text
                 # <<"Unknown tool: ", ToolName>>
           /\ (ToolArgs.type = "object" /\ ToolArgs.value.path # {})
                 => rpc.end.value.value.result.value.isError = FALSE

\* records of two sessions
ResourceEntries ==
    {LogEntry("client", "LogTemp", Error, <<"player", "spawned">>, 1, 0,
              "A", "i1"),
     LogEntry("server", "LogNet", Log, <<"player">>, 2, 0, "B", "i2")}

\* reads of logs://current-session
CurrentSessionRequests ==
    {Request(id, {JsonValue("string", "resources/read")},
             {JsonObject([NoParams EXCEPT
                 !.uri = {JsonValue("string", "logs://current-session")}])}) :
        id \in RequestIds}

NextResource ==
    \/ \E e \in ResourceEntries, now \in Clock : RpcInsert(e, now)
    \/ \E request \in CurrentSessionRequests : CurrentSessionQuery(request)
    \/ \E e \in ResourceEntries, now \in Clock : CurrentSessionInsert(e, now)
    \/ CurrentSessionLatest
    \/ RpcDone

SpecResource == Init /\ [][NextResource]_vars

\* the request handled last was answered with the contents of
\* logs://current-session
ReadCurrentSession ==
    /\ rpc # NoRpc
    /\ rpc.end.kind = "returned"
    /\ IsSuccess(rpc.end.value)
    /\ RpcMethod = "resources/read"
    /\ Value(RpcParams, "uri", JsonValue("string", "")).value
          = "logs://current-session"

\* the object the resource function returned
CurrentSessionBody == rpc.end.value.value.result.value.contents[1].text.value

\* C32: in every result of reading logs://current-session each returned
\* log has the session_id of the result's `session_id` field and `count`
\* is the number of returned logs, also when records of a new session are
\* inserted while the resource is read.
C32_CurrentSessionIsOneSession ==
    ReadCurrentSession
        => /\ \A i \in DOMAIN CurrentSessionBody.logs.value :
                 CurrentSessionBody.logs.value[i].session_id
                    = {JsonValue("string", CurrentSessionBody.session_id)}
           /\ CurrentSessionBody.count = Len(CurrentSessionBody.logs.value)

\* the request handled last is a resources/read of a URI that names none
\* of the four resources
UnknownResource ==
    /\ EnvelopeShaped
    /\ RpcMethod = "resources/read"
    /\ RpcParams.type = "object"
    /\ \A u \in RpcParams.value.uri : u.type = "string"
    /\ Value(RpcParams, "uri", JsonValue("string", "")).value
          \notin ResourceUris

\* C30: whatever request object with a method name handle_request is
\* given, no exception escapes it; and a resources/read of an unknown URI
\* is answered by an error envelope with code -32603, the message of the
\* exception and the id of the request.
C30_ExceptionBecomesInternalError ==
    /\ EnvelopeShaped => rpc.end.kind = "returned"
    /\ UnknownResource
          => /\ IsError(rpc.end.value)
             /\ rpc.end.value.value.error.code = -32603
             /\ rpc.end.value.value.error.message
                   = <<"Unknown resource: ",
                       Value(RpcParams, "uri", JsonValue("string", "")).value>>
             /\ rpc.end.value.value.id = RpcId


(***************************************************************************)
(* HttpServer: the transport (src/src/http_server.cpp)                     *)
(*                                                                         *)
(* Stream i is the i-th GET / connection.  Its worker runs the chunked     *)
(* content provider: "accepted" (session id generated), "registered"       *)
(* (client pushed onto sse_clients_), "loop" (endpoint event written),     *)
(* "leaving" (loop left) and "returned".  The DataSink of a stream lives   *)
(* on the stack of its worker from the call of the provider to its return; *)
(* SseClient::sink of a client whose worker has returned dangles.  The     *)
(* POST handler is one step: the lines of ServerLog::log are not kept.     *)
(***************************************************************************)
\* (variant: the id is made of the random digits only)
SessionIdWithoutCounter(counter, hex) == <<"session_", 0, hex>>

\* generate_session_id(): "session_" << ++session_counter_ << "_" << 8 hex
\* digits of std::random_device
SessionId(counter, hex) == <<"session_", counter, hex>>

\* req.get_param_value("session_id") of a request without the parameter:
\* the empty string
NoSessionId == <<>>

\* values of the random suffix
HexSuffixes == {"0000000a", "0000000b"}

SseClient(session_id, stream) == [session_id |-> session_id, sink |-> stream]

\* "event: <name>\ndata: <data>\n\n" and the comment frame ": ping\n\n"
Frame(event, data) == [event |-> event, data |-> data]

\* the worker of the stream is inside the content provider: its DataSink
\* exists
SinkAlive(i) ==
    streams[i].pc \in {"registered", "loop", "pinging", "leaving"}

\* "std::lock_guard<std::mutex> lock(sse_mutex_)" can be taken
sse_lock_guard == sse_mutex_ = NoOwner

\* sink.is_writable() / sink.write() succeed: the client is connected
Writable(i) == SinkAlive(i) /\ streams[i].writable

\* the streams a write through client->sink can reach: the client's own
\* stream while its worker is inside the provider; once the worker has
\* returned the pointer dangles and the call acts on whatever lies at that
\* address, nothing or the DataSink of a worker that runs now
Targets(client) ==
    IF SinkAlive(client.sink)
    THEN IF Writable(client.sink) THEN {client.sink} ELSE {0}
    ELSE {0} \cup {j \in DOMAIN streams : Writable(j)}

\* the loop over sse_clients_ of the POST handler and of broadcast_sse:
\* for each client, the stream its frame goes to (0: none); `matching` are
\* the positions of the clients the loop writes to
WriteTargets(matching) ==
    {w \in [DOMAIN sse_clients_ -> 0..MaxStreams] :
        \A k \in DOMAIN sse_clients_ :
           w[k] \in (IF k \in matching
                     THEN Targets(sse_clients_[k]) ELSE {0})}

\* the streams after the loop wrote `frame` to the targets w
FramesAfter(w, frame) ==
    [j \in DOMAIN streams |->
        [streams[j] EXCEPT
            !.frames = @ \o [n \in 1..Cardinality({k \in DOMAIN w : w[k] = j})
                                |-> frame]]]

\* start(): running_ = true, the listener thread is started; after a
\* stop() the listener thread has been joined, so no worker is left
HttpStart ==
    /\ ~http_running_
    /\ \A i \in DOMAIN streams : streams[i].pc \in {"idle", "returned"}
    /\ http_running_' = TRUE
    /\ UNCHANGED <<session_counter_, sse_clients_, streams, post, broadcasts>>
    /\ UNCHANGED <<storeVars, mutex_, subscribers_, insertVars, notified,
                   histVars, lastOp, ingestVars, srcVars, rpc>>
    /\ UNCHANGED sseVars

\* stop(): running_ = false and the listener is stopped; the workers see
\* it in their keep-alive loops
HttpStop ==
    /\ http_running_
    /\ http_running_' = FALSE
    /\ UNCHANGED <<session_counter_, sse_clients_, streams, post, broadcasts>>
    /\ UNCHANGED <<storeVars, mutex_, subscribers_, insertVars, notified,
                   histVars, lastOp, ingestVars, srcVars, rpc>>
    /\ UNCHANGED sseVars

\* GET /: the handler generates the session id and installs the provider
SseConnect(i, hex) ==
    /\ http_running_
    /\ i = session_counter_ + 1
    /\ i \in DOMAIN streams
    /\ session_counter_' = session_counter_ + 1
    /\ streams' = [streams EXCEPT
                      ![i] = [pc |-> "accepted",
                              session_id |-> SessionId(session_counter_', hex),
                              writable |-> TRUE, frames |-> <<>>]]
    /\ UNCHANGED <<http_running_, sse_clients_, post, broadcasts>>
    /\ UNCHANGED <<storeVars, mutex_, subscribers_, insertVars, notified,
                   histVars, lastOp, ingestVars, srcVars, rpc>>
    /\ UNCHANGED sseVars

\* the provider: "sse_clients_.push_back(client)" under sse_mutex_
SseRegister(i) ==
    /\ streams[i].pc = "accepted"
    /\ sse_lock_guard
    /\ sse_clients_' = Append(sse_clients_,
                              SseClient(streams[i].session_id, i))
    /\ streams' = [streams EXCEPT ![i].pc = "registered"]
    /\ UNCHANGED <<http_running_, session_counter_, post, broadcasts>>
    /\ UNCHANGED <<storeVars, mutex_, subscribers_, insertVars, notified,
                   histVars, lastOp, ingestVars, srcVars, rpc>>
    /\ UNCHANGED sseVars

\* the provider: the endpoint event is written; when the write fails the
\* provider reports it and returns false, leaving its client in the list
SseEndpoint(i) ==
    /\ streams[i].pc = "registered"
    /\ IF streams[i].writable
       THEN /\ streams' = [streams EXCEPT
                              ![i].pc = "loop",
                              ![i].frames =
                                  Append(@, Frame("endpoint",
                                                  <<"/messages?session_id=",
                                                    streams[i].session_id>>))]
            /\ UNCHANGED sink
       ELSE /\ streams' = [streams EXCEPT ![i].pc = "returned"]
            /\ sink' = Append(sink, Report("HTTP", TRUE))
    /\ UNCHANGED <<http_running_, session_counter_, sse_clients_, post,
                   broadcasts>>
    /\ UNCHANGED <<storeVars, mutex_, subscribers_, insertVars, notified,
                   histVars, lastOp, codecVars, udpVars, fileVars, tailVars,
                   srcVars, rpc>>
    /\ UNCHANGED sseVars

\* the keep-alive loop, every 150th round: the ping frame is written
SseKeepAlive(i) ==
    /\ streams[i].pc = "loop"
    /\ http_running_
    /\ streams[i].writable
    /\ Cardinality({k \in DOMAIN streams[i].frames :
                       streams[i].frames[k].event = "ping"}) < MaxPings
    /\ streams' = [streams EXCEPT
                      ![i].frames = Append(@, Frame("ping", <<>>))]
    /\ UNCHANGED <<http_running_, session_counter_, sse_clients_, post,
                   broadcasts>>
    /\ UNCHANGED <<storeVars, mutex_, subscribers_, insertVars, notified,
                   histVars, lastOp, ingestVars, srcVars, rpc>>
    /\ UNCHANGED sseVars

\* the keep-alive loop ends: "while (running_ && sink.is_writable())" is
\* false or the write of the ping failed
SseLeave(i) ==
    /\ streams[i].pc = "loop"
    /\ ~http_running_ \/ ~streams[i].writable
    /\ streams' = [streams EXCEPT ![i].pc = "leaving"]
    /\ UNCHANGED <<http_running_, session_counter_, sse_clients_, post,
                   broadcasts>>
    /\ UNCHANGED <<storeVars, mutex_, subscribers_, insertVars, notified,
                   histVars, lastOp, ingestVars, srcVars, rpc>>
    /\ UNCHANGED sseVars

\* after the loop: the clients with this session id are erased under
\* sse_mutex_ and the provider returns false
SseUnregister(i) ==
    /\ streams[i].pc = "leaving"
    /\ sse_lock_guard
    /\ sse_clients_' = SelectSeq(sse_clients_,
                          LAMBDA c : c.session_id # streams[i].session_id)
    /\ streams' = [streams EXCEPT ![i].pc = "returned"]
    /\ UNCHANGED <<http_running_, session_counter_, post, broadcasts>>
    /\ UNCHANGED <<storeVars, mutex_, subscribers_, insertVars, notified,
                   histVars, lastOp, ingestVars, srcVars, rpc>>
    /\ UNCHANGED sseVars

\* the client of the stream closes its connection
ClientDisconnect(i) ==
    /\ streams[i].pc \in {"accepted", "registered", "loop"}
    /\ streams[i].writable
    /\ streams' = [streams EXCEPT ![i].writable = FALSE]
    /\ UNCHANGED <<http_running_, session_counter_, sse_clients_, post,
                   broadcasts>>
    /\ UNCHANGED <<storeVars, mutex_, subscribers_, insertVars, notified,
                   histVars, lastOp, ingestVars, srcVars, rpc>>
    /\ UNCHANGED sseVars

\* a request body: does json::parse accept it, and the value it yields
Body(parses, json) == [parses |-> parses, json |-> json]

\* (variant: the dispatcher is called only for a registered session)
ReachesHandlerOnlyIfRegistered(session_id, body) ==
    /\ session_id # NoSessionId
    /\ body.parses
    /\ \E k \in DOMAIN sse_clients_ : sse_clients_[k].session_id = session_id

\* the POST handler gets as far as the call of message_handler_: the
\* session_id parameter is not empty and json::parse(req.body) did not
\* throw; whether a client is registered under the id is not looked at
ReachesHandler(session_id, body) ==
    /\ session_id # NoSessionId
    /\ body.parses

PostResult(session_id, parses, dispatched, end, status, written) ==
    [n |-> post.n + 1, session_id |-> session_id, parses |-> parses,
     dispatched |-> dispatched, end |-> end, status |-> status,
     written |-> written]

\* POST /messages?session_id=<session_id> with the body `body`
Post(session_id, body) ==
    /\ http_running_
    /\ post.n < MaxPosts
    /\ lock_guard
    /\ sse_lock_guard
    /\ IF ~ReachesHandler(session_id, body)
       THEN /\ post' = PostResult(session_id, body.parses, FALSE,
                                  NoPost.end, 400, {})
            /\ UNCHANGED <<streams, rpc, storeVars, histVars, lastOp>>
       ELSE \E e \in handle_request(body.json, FALSE) :
               /\ rpc' = [request |-> body.json, end |-> e]
               /\ StoreAfter(e)
               /\ IF e.kind = "threw"
                  THEN /\ post' = PostResult(session_id, TRUE, TRUE, e, 400,
                                             {})
                       /\ UNCHANGED streams
                  ELSE \E w \in WriteTargets(
                                   {k \in DOMAIN sse_clients_ :
                                       sse_clients_[k].session_id
                                          = session_id}) :
                          /\ streams' = FramesAfter(w,
                                           Frame("message", e.value))
                          /\ post' = PostResult(session_id, TRUE, TRUE, e,
                                                202, Range(w) \ {0})
    /\ UNCHANGED <<http_running_, session_counter_, sse_clients_, broadcasts>>
    /\ UNCHANGED <<mutex_, subscribers_, insertVars, notified, ingestVars,
                   srcVars>>
    /\ UNCHANGED sseVars

\* broadcast_sse(event_type, data)
BroadcastSse(event_type, data) ==
    /\ broadcasts < MaxBroadcasts
    /\ sse_lock_guard
    /\ broadcasts' = broadcasts + 1
    /\ \E w \in WriteTargets(DOMAIN sse_clients_) :
          streams' = FramesAfter(w, Frame(event_type, data))
    /\ UNCHANGED <<http_running_, session_counter_, sse_clients_, post>>
    /\ UNCHANGED <<storeVars, mutex_, subscribers_, insertVars, notified,
                   histVars, lastOp, ingestVars, srcVars, rpc>>
    /\ UNCHANGED sseVars
\* session ids a POST can name: none, and every id the server can assign
PostSessionIds ==
    {NoSessionId}
    \cup {SessionId(n, hex) : n \in 1..MaxStreams, hex \in HexSuffixes}

\* bodies: text that is no JSON, a ping, the notification of the
\* handshake, a resources/read of an unknown URI, and an array
PostBodies ==
    {Body(FALSE, Null),
     Body(TRUE, Request({JsonValue("number", 1)},
                        {JsonValue("string", "ping")}, {})),
     Body(TRUE, Request({}, {JsonValue("string", "notifications/initialized")},
                        {})),
     Body(TRUE, Request({JsonValue("number", 1)},
                        {JsonValue("string", "resources/read")},
                        {JsonObject([NoParams EXCEPT
                            !.uri = {JsonValue("string", "logs://nope")}])})),
     Body(TRUE, JsonValue("array", <<>>))}

NextHttp ==
    \/ HttpStart
    \/ HttpStop
    \/ \E i \in 1..MaxStreams, hex \in HexSuffixes : SseConnect(i, hex)
    \/ \E i \in 1..MaxStreams : SseRegister(i)
    \/ \E i \in 1..MaxStreams : SseEndpoint(i)
    \/ \E i \in 1..MaxStreams : SseKeepAlive(i)
    \/ \E i \in 1..MaxStreams : SseLeave(i)
    \/ \E i \in 1..MaxStreams : SseUnregister(i)
    \/ \E i \in 1..MaxStreams : ClientDisconnect(i)
    \/ \E session_id \in PostSessionIds, body \in PostBodies :
          Post(session_id, body)
    \/ BroadcastSse("message", JsonValue("string", "notice"))

SpecHttp == Init /\ [][NextHttp]_vars

\* C23: on every event stream the endpoint event is written once and is
\* the first frame: no message frame and no keep-alive frame precedes it.
C23_EndpointEventFirst ==
    \A i \in DOMAIN streams :
       streams[i].frames # <<>>
          => /\ streams[i].frames[1].event = "endpoint"
             /\ Cardinality({k \in DOMAIN streams[i].frames :
                                streams[i].frames[k].event = "endpoint"}) = 1

\* C24: the response to a POST for session id S is written only to streams
\* registered under S: a POST never adds a frame to the stream of another
\* session id.
C24_ResponseOnlyToItsSession ==
    [][post'.n # post.n
          => \A i \in DOMAIN streams :
                streams'[i].frames # streams[i].frames
                   => streams[i].session_id = post'.session_id]_vars

\* C25: POST /messages answers 400 without calling the dispatcher when the
\* session_id is missing or the body is no JSON, and 202 in every other
\* case.
C25_StatusIs202UnlessMalformed ==
    post # NoPost
       => IF post.session_id = NoSessionId \/ ~post.parses
          THEN post.status = 400 /\ ~post.dispatched
          ELSE post.status = 202 /\ post.dispatched

\* C26: when the dispatcher returns the empty value for a posted message,
\* the POST writes no frame to any stream.
C26_EmptyResponseNotForwarded ==
    [][(post'.n # post.n /\ post'.dispatched /\ post'.end.kind = "returned"
           /\ post'.end.value = Null)
          => \A i \in DOMAIN streams :
                streams'[i].frames = streams[i].frames]_vars

(***************************************************************************)
(* POST /messages and the keep-alive write, in the steps other workers of  *)
(* the pool can observe: the handler calls the dispatcher without holding  *)
(* sse_mutex_, then takes sse_mutex_ for its loop over sse_clients_; the   *)
(* provider of a stream writes its ping without taking sse_mutex_.         *)
(***************************************************************************)
\* the handler up to the return of message_handler_; without a session id
\* or with a body that does not parse it answers 400 at once
PostDispatch(w, session_id, body) ==
    /\ http_running_
    /\ handlers[w].pc = "idle"
    /\ Len(produced) < MaxHandled
    /\ lock_guard
    /\ IF ~ReachesHandler(session_id, body)
       THEN /\ handlers' = [handlers EXCEPT
                               ![w] = [NoHandler EXCEPT
                                          !.pc = "done",
                                          !.session_id = session_id,
                                          !.status = 400]]
            /\ UNCHANGED <<produced, rpc, storeVars, histVars, lastOp>>
       ELSE \E e \in handle_request(body.json, FALSE) :
               /\ rpc' = [request |-> body.json, end |-> e]
               /\ StoreAfter(e)
               /\ handlers' = [handlers EXCEPT
                                  ![w] = [NoHandler EXCEPT
                                     !.pc = IF e.kind = "threw" THEN "done"
                                            ELSE "dispatched",
                                     !.session_id = session_id,
                                     !.end = e,
                                     !.status = IF e.kind = "threw" THEN 400
                                                ELSE 0]]
               /\ produced' = IF e.kind = "threw" THEN produced
                              ELSE Append(produced,
                                          [session_id |-> session_id,
                                           response |-> e.value])
    /\ UNCHANGED <<http_running_, session_counter_, sse_clients_, streams,
                   post, broadcasts, sse_mutex_, writing>>
    /\ UNCHANGED <<mutex_, subscribers_, insertVars, notified, ingestVars,
                   srcVars>>

\* "std::lock_guard<std::mutex> lock(sse_mutex_)" is taken and the loop
\* calls sink->write on the clients of the session that are writable
PostLock(w) ==
    /\ handlers[w].pc = "dispatched"
    /\ sse_lock_guard
    /\ sse_mutex_' = w
    /\ \E t \in WriteTargets({k \in DOMAIN sse_clients_ :
                                 sse_clients_[k].session_id
                                    = handlers[w].session_id}) :
          /\ handlers' = [handlers EXCEPT ![w].pc = "writing",
                                          ![w].targets = t]
          /\ writing' = [j \in DOMAIN writing |->
                            IF j \in Range(t) THEN writing[j] \cup {w}
                            ELSE writing[j]]
    /\ UNCHANGED <<http_running_, session_counter_, sse_clients_, streams,
                   post, broadcasts, produced>>
    /\ UNCHANGED <<storeVars, mutex_, subscribers_, insertVars, notified,
                   histVars, lastOp, ingestVars, srcVars, rpc>>

\* the writes are done, sse_mutex_ is released, the answer is 202
PostUnlock(w) ==
    /\ handlers[w].pc = "writing"
    /\ streams' = FramesAfter(handlers[w].targets,
                              Frame("message", handlers[w].end.value))
    /\ writing' = [j \in DOMAIN writing |-> writing[j] \ {w}]
    /\ sse_mutex_' = NoOwner
    /\ handlers' = [handlers EXCEPT ![w].pc = "done", ![w].status = 202]
    /\ UNCHANGED <<http_running_, session_counter_, sse_clients_, post,
                   broadcasts, produced>>
    /\ UNCHANGED <<storeVars, mutex_, subscribers_, insertVars, notified,
                   histVars, lastOp, ingestVars, srcVars, rpc>>

\* the handler has returned: the worker takes the next request
PostReturn(w) ==
    /\ handlers[w].pc = "done"
    /\ handlers' = [handlers EXCEPT ![w] = NoHandler]
    /\ UNCHANGED <<http_running_, session_counter_, sse_clients_, streams,
                   post, broadcasts, sse_mutex_, writing, produced>>
    /\ UNCHANGED <<storeVars, mutex_, subscribers_, insertVars, notified,
                   histVars, lastOp, ingestVars, srcVars, rpc>>

\* the keep-alive loop, every 150th round: the provider calls
\* sink.write(ping) on its own stream
KeepAliveBegin(i) ==
    /\ streams[i].pc = "loop"
    /\ http_running_
    /\ streams[i].writable
    /\ Cardinality({k \in DOMAIN streams[i].frames :
                       streams[i].frames[k].event = "ping"}) < MaxPings
    /\ streams' = [streams EXCEPT ![i].pc = "pinging"]
    /\ writing' = [writing EXCEPT ![i] = @ \cup {"provider"}]
    /\ UNCHANGED <<http_running_, session_counter_, sse_clients_, post,
                   broadcasts, handlers, sse_mutex_, produced>>
    /\ UNCHANGED <<storeVars, mutex_, subscribers_, insertVars, notified,
                   histVars, lastOp, ingestVars, srcVars, rpc>>

\* the write of the ping returns
KeepAliveEnd(i) ==
    /\ streams[i].pc = "pinging"
    /\ streams' = [streams EXCEPT
                      ![i].pc = "loop",
                      ![i].frames = Append(@, Frame("ping", <<>>))]
    /\ writing' = [writing EXCEPT ![i] = @ \ {"provider"}]
    /\ UNCHANGED <<http_running_, session_counter_, sse_clients_, post,
                   broadcasts, handlers, sse_mutex_, produced>>
    /\ UNCHANGED <<storeVars, mutex_, subscribers_, insertVars, notified,
                   histVars, lastOp, ingestVars, srcVars, rpc>>

\* the n-th request a client posts: a ping with the id n
PingBody(n) ==
    Body(TRUE, Request({JsonValue("number", n)},
                       {JsonValue("string", "ping")}, {}))

NextSse ==
    \/ HttpStart
    \/ \E i \in 1..MaxStreams : SseConnect(i, "0000000a")
    \/ \E i \in 1..MaxStreams : SseRegister(i)
    \/ \E i \in 1..MaxStreams : SseEndpoint(i)
    \/ \E i \in 1..MaxStreams : KeepAliveBegin(i)
    \/ \E i \in 1..MaxStreams : KeepAliveEnd(i)
    \/ \E w \in PostWorkers, session_id \in PostSessionIds :
          PostDispatch(w, session_id, PingBody(Len(produced) + 1))
    \/ \E w \in PostWorkers : PostLock(w)
    \/ \E w \in PostWorkers : PostUnlock(w)
    \/ \E w \in PostWorkers : PostReturn(w)

SpecSse == Init /\ [][NextSse]_vars

\* the data of the message frames written to stream i, in stream order
MessagesOn(i) ==
    LET idx == SelectSeq([k \in DOMAIN streams[i].frames |-> k],
                         LAMBDA k : streams[i].frames[k].event = "message")
    IN  [k \in DOMAIN idx |-> streams[i].frames[idx[k]].data]

\* the responses the dispatcher produced for the session, in its order
ProducedFor(session_id) ==
    LET idx == SelectSeq([k \in DOMAIN produced |-> k],
                         LAMBDA k : produced[k].session_id = session_id)
    IN  [k \in DOMAIN idx |-> produced[idx[k]].response]

\* C33: the message frames on the stream of a session appear in the order
\* in which the dispatcher produced the responses for that session: one
\* response is on the stream before another only if it was produced
\* before it.
C33_FramesInDispatchOrder ==
    \A i \in DOMAIN streams :
       \A a, b \in DOMAIN MessagesOn(i) :
          a < b =>
             \A x, y \in DOMAIN ProducedFor(streams[i].session_id) :
                (/\ ProducedFor(streams[i].session_id)[x] = MessagesOn(i)[a]
                 /\ ProducedFor(streams[i].session_id)[y] = MessagesOn(i)[b])
                   => x < y

\* C34: no two workers are inside a write to the same event stream at the
\* same time: the keep-alive write of the stream's provider and the
\* message write of a POST handler exclude each other.
C34_OneWriterPerStream ==
    \A i \in DOMAIN writing : Cardinality(writing[i]) <= 1

\* a tools/call of clear_logs without arguments
ClearBody ==
    Body(TRUE, Request({JsonValue("number", 1)},
                       {JsonValue("string", "tools/call")},
                       {JsonObject([NoParams EXCEPT
                           !.name = {JsonValue("string", "clear_logs")}])}))

\* records arrive, clients connect, and requests are posted under session
\* ids that may or may not be registered
NextUnmatched ==
    \/ HttpStart
    \/ \E e \in ResourceEntries : RpcInsert(e, 1)
    \/ \E i \in 1..MaxStreams : SseConnect(i, "0000000a")
    \/ \E i \in 1..MaxStreams : SseRegister(i)
    \/ \E i \in 1..MaxStreams : SseEndpoint(i)
    \/ \E n \in 1..MaxStreams, body \in {ClearBody, PingBody(1)} :
          Post(SessionId(n, "0000000a"), body)

SpecUnmatched == Init /\ [][NextUnmatched]_vars

NextConnect ==
    \/ HttpStart
    \/ HttpStop
    \/ \E i \in 1..MaxStreams, hex \in HexSuffixes : SseConnect(i, hex)
    \/ \E i \in 1..MaxStreams : SseRegister(i)
    \/ \E i \in 1..MaxStreams : SseEndpoint(i)
    \/ \E i \in 1..MaxStreams : SseLeave(i)
    \/ \E i \in 1..MaxStreams : SseUnregister(i)
    \/ \E i \in 1..MaxStreams : ClientDisconnect(i)

SpecConnect == Init /\ [][NextConnect]_vars

\* C35: whenever the worker of an event stream has ended, its client is no
\* longer in the client set: no entry of sse_clients_ refers to a stream
\* whose worker has returned.
C35_NoClientOfReturnedWorker ==
    \A k \in DOMAIN sse_clients_ :
       streams[sse_clients_[k].sink].pc # "returned"

\* the workers of the pool keep running: a provider that can take its next
\* step takes it (the keep-alive loop tests running_ every 100 ms)
SpecConnectFair ==
    /\ SpecConnect
    /\ \A i \in 1..MaxStreams :
          /\ WF_vars(SseRegister(i))
          /\ WF_vars(SseEndpoint(i))
          /\ WF_vars(SseLeave(i))
          /\ WF_vars(SseUnregister(i))

\* C36: after stop() every stream worker eventually leaves its keep-alive
\* loop and returns and the client set becomes empty (stop() then returns
\* from joining the listener); a stop() of a stopped server changes
\* nothing.
C36_StopEndsEveryStream ==
    (~http_running_)
        ~> (/\ \A i \in DOMAIN streams : streams[i].pc \in {"idle", "returned"}
            /\ sse_clients_ = <<>>)

\* C37: the session ids assigned by one server are pairwise distinct and
\* their counters strictly increase in the order of assignment; at most
\* one registered client has any session id.
C37_SessionIdsDistinctAndIncreasing ==
    /\ \A i, j \in DOMAIN streams :
          (i < j /\ streams[i].pc # "idle" /\ streams[j].pc # "idle")
             => /\ streams[i].session_id # streams[j].session_id
                /\ streams[i].session_id[2] < streams[j].session_id[2]
    /\ \A k, l \in DOMAIN sse_clients_ :
          k # l => sse_clients_[k].session_id # sse_clients_[l].session_id

\* two clients that drew the same random digits are registered
C37_Witness ==
    /\ Len(sse_clients_) = 2
    /\ sse_clients_[1].session_id[3] = sse_clients_[2].session_id[3]
    /\ streams[1].pc = "loop"
    /\ streams[2].pc = "loop"

=============================================================================
